---- MODULE Spec2Model ----
(***************************************************************************)
(* The x402r EigenCloud arbiter (src/src/index.ts): the ledger it talks    *)
(* to, the auto-evaluation poller, the POST /api/evaluate handler and the  *)
(* shared evaluateDispute workflow.                                        *)
(*                                                                         *)
(* Every `await` on a ledger call is one step: the call takes effect (or  *)
(* fails) and the awaiting callback resumes and runs synchronously up to  *)
(* its next ledger call.  Calls that touch no shared state (content       *)
(* resolution, the model call) are taken inside the step that issues them.*)
(*                                                                         *)
(* Confidence values and CONFIDENCE_THRESHOLD are in tenths (0.7 is 7);   *)
(* a field that JavaScript reads as `undefined` is the string "undefined" *)
(* (decision, reasoning) or the number Undef (confidence).                 *)
(***************************************************************************)
EXTENDS Integers, Sequences, FiniteSets, TLC

\* ---------------------------------------------------------------- bounds
NumDisputes == 1
NumTicks == 2
NumManual == 1
MaxPartyEvidence == 2
MaxEvals == 2
MaxConcurrent == 2
MaxAnswers == 2
MaxLedger == 51
MaxEntries == 5
MaxCommentary == 3
NumScans == 2
MaxFaults == 1
NumQueued == 2
NumLogged == 3
MaxListed == 25
MaxStale == 2

\* ------------------------------------------------------ program constants
CONFIDENCE_THRESHOLD == 7
EIGENAI_SEED == 42
Undef == -1

Disputes == 1..NumDisputes
Ticks == {<<"tick", i>> : i \in 1..NumTicks}
Manuals == {<<"manual", i>> : i \in 1..NumManual}
Procs == Ticks \cup Manuals

Payer == 0
Receiver == 1
Arbiter == 2

EIGENAI_MODEL == "gpt-oss-120b-f16"

\* ------------------------------------------------------------------ texts
\* A text is a sequence of tokens [k, v]; k is the token kind.
Tok(k, v) == [k |-> k, v |-> v]
Word == Tok("word", "w")
LBrace == Tok("lbrace", "{")
RBrace == Tok("rbrace", "}")
Null == Tok("null", "null")
Num == Tok("number", "42")

Obj(d, r, c) == <<LBrace, Tok("decision", d), Tok("reasoning", r), Tok("confidence", c), RBrace>>

\* Number literals the model may write for the confidence, in tenths.
NumberValue(s) ==
  CASE s = "0.5" -> 5
    [] s = "0.7" -> 7
    [] s = "0.9" -> 9
    [] OTHER -> Undef

\* The display texts the model answers with.
Responses ==
  { Obj("approve", "r", "0.7"),
    Obj("approve", "r", "0.5"),
    Obj("deny", "r", "0.9"),
    <<Word>> \o Obj("approve", "r", "0.9"),
    <<Word, Word>>,
    <<LBrace, Tok("decision", "approve"), RBrace>>,
    <<Null>>,
    <<LBrace, Word, RBrace>> \o Obj("deny", "r", "0.9") }

\* rawResponse is the display text wrapped in EigenAI's channel tags; what
\* stands between the tags differs from call to call.
ChannelTag(c) == Tok("channel", c)
EndTag == Tok("end", "<|end|>")
Channels == {"analysis", "final"}
RawResponse(c, display) == <<ChannelTag(c)>> \o display \o <<EndTag>>

\* Math.floor(Math.random() * 10000): the values explored.
Seeds == {42}

\* Content identifiers the parties submit.
PartyCids == {"QmA"}

\* ---------------------------------------------------------- pure functions
Min(S) == CHOOSE x \in S : \A y \in S : x <= y
Max(S) == CHOOSE x \in S : \A y \in S : x >= y
Positions(t, k) == {i \in 1..Len(t) : t[i].k = k}
Reverse(s) == [i \in 1..Len(s) |-> s[Len(s) + 1 - i]]
Range(s) == {s[i] : i \in 1..Len(s)}

\* Property read on a parsed object: the last member with that key, else
\* undefined.
Field(t, k) == IF Positions(t, k) = {} THEN "undefined" ELSE t[Max(Positions(t, k))].v

Thrown == [ok |-> FALSE, kind |-> "none", decision |-> "undefined", reasoning |-> "undefined", confidence |-> Undef]

\* JSON.parse: a literal, or an object of members; anything else is a
\* SyntaxError (ok = FALSE).
JSONParse(t) ==
  IF t = <<Null>> THEN [Thrown EXCEPT !.ok = TRUE, !.kind = "null"]
  ELSE IF t = <<Num>> THEN [Thrown EXCEPT !.ok = TRUE, !.kind = "number"]
  ELSE IF /\ Len(t) >= 2
          /\ t[1] = LBrace
          /\ t[Len(t)] = RBrace
          /\ \A i \in 2..(Len(t) - 1) : t[i].k \in {"decision", "reasoning", "confidence"}
       THEN [ok |-> TRUE, kind |-> "object",
             decision |-> Field(t, "decision"),
             reasoning |-> Field(t, "reasoning"),
             confidence |-> NumberValue(Field(t, "confidence"))]
       ELSE Thrown

\* displayContent.match(/\{[\s\S]*"decision"[\s\S]*"reasoning"[\s\S]*"confidence"[\s\S]*\}/):
\* the leftmost match starts at the first "{" and, the quantifiers being
\* greedy, ends at the last "}".
RegexMatches(t) ==
  \E i \in Positions(t, "lbrace") :
    \E j \in Positions(t, "decision") :
      /\ i < j
      /\ \E k \in Positions(t, "reasoning") :
           /\ j < k
           /\ \E l \in Positions(t, "confidence") :
                /\ k < l
                /\ \E m \in Positions(t, "rbrace") : l < m

RegexMatch(t) == SubSeq(t, Min(Positions(t, "lbrace")), Max(Positions(t, "rbrace")))

\* Step 5 of evaluateDispute: strict parse, else parse of the regex match,
\* else throw.
ParseDecision(display) ==
  IF JSONParse(display).ok THEN JSONParse(display)
  ELSE IF RegexMatches(display) THEN JSONParse(RegexMatch(display))
  ELSE Thrown

\* stripTags left as the identity.
stripTags_Keep(text) == text

\* stripTags (eigenai-client): the leading <|channel|>...<|message|> and the
\* trailing <|end|> are removed.
stripTags(text) ==
  LET body == IF text # <<>> /\ text[1].k = "channel" THEN Tail(text) ELSE text
  IN IF body # <<>> /\ body[Len(body)] = EndTag THEN SubSeq(body, 1, Len(body) - 1) ELSE body

\* Step 6 reads decision.decision: a TypeError when the parsed value is null.
DecisionThrows(display) == ~ParseDecision(display).ok \/ ParseDecision(display).kind = "null"

\* The threshold comparison made strict.
MeetsThreshold_Strict(decision, threshold) ==
  decision.decision = "approve" /\ decision.confidence > threshold

\* meetsThreshold (index.ts:373-375).
MeetsThreshold(decision, threshold) ==
  decision.decision = "approve" /\ decision.confidence >= threshold

\* The model's own decision recorded, whatever the threshold says.
Outcome_ModelDecision(decision, threshold) == decision.decision

\* outcome (index.ts:376).
Outcome(decision, threshold) == IF MeetsThreshold(decision, threshold) THEN "approve" ELSE "deny"

\* keccak256, taken to be collision free.
keccak256(x) == <<"keccak256", x>>

\* A commitment that records the configured seed whatever seed was used.
createCommitment_ConfiguredSeed(prompt, seed, response) ==
  LET promptHash == keccak256(prompt)
      responseHash == keccak256(response)
  IN [promptHash |-> promptHash,
      responseHash |-> responseHash,
      commitmentHash |-> keccak256(<<promptHash, responseHash, EIGENAI_SEED>>),
      seed |-> EIGENAI_SEED]

createCommitment(prompt, seed, response) ==
  LET promptHash == keccak256(prompt)
      responseHash == keccak256(response)
  IN [promptHash |-> promptHash,
      responseHash |-> responseHash,
      commitmentHash |-> keccak256(<<promptHash, responseHash, seed>>),
      seed |-> seed]

IpfsCid(id) == [type |-> "ipfs", id |-> id]

ROLE_LABELS(role) ==
  CASE role = Payer -> "Payer"
    [] role = Receiver -> "Receiver"
    [] role = Arbiter -> "Arbiter"
    [] role = 3 -> "Role(3)"
    [] role = 4 -> "Role(4)"
    [] OTHER -> "Role(n)"

\* Step 2: inline JSON resolves to itself, a content address is fetched and
\* a failed fetch becomes the sentinel.
ResolveContent(cid, failed) ==
  IF cid \in failed THEN [kind |-> "(failed to retrieve)", of |-> cid]
  ELSE IF cid.type = "ipfs" THEN [kind |-> "fetched", of |-> cid]
  ELSE [kind |-> "inline", of |-> cid]

\* buildPrompt (prompts.ts:23-46): the heading, one section per entry in
\* ledger order, the closing line.
buildPrompt(evidence, failed) ==
  <<[text |-> "# Dispute Evidence"]>> \o
  [i \in 1..Len(evidence) |->
     [role |-> ROLE_LABELS(evidence[i].role),
      submitter |-> evidence[i].submitter,
      submitted |-> evidence[i].timestamp,
      cid |-> evidence[i].cid,
      content |-> ResolveContent(evidence[i].cid, failed)]] \o
  <<[text |-> "Based on the above evidence, provide your decision as JSON."]>>

\* ---- buildPrompt by the number of characters (UTF-16 units, as
\* String.length and slice count them).  An entry is its role and the
\* length of its resolved content.
MAX_EVIDENCE_CHARS_PER_ENTRY == 20000
MAX_PROMPT_CHARS == 80000

\* "\n\n[... truncated - evidence exceeded size limit]" and
\* "\n\n[... prompt truncated to fit payload limit]"
EntryMarkerChars == 48
PromptMarkerChars == 45

\* "# Dispute Evidence\n" and the closing line
HeadingChars == 19
ClosingChars == 64

\* An address, new Date(...).toISOString() and a CIDv0
SubmitterChars == 42
TimestampChars == 24
CidChars == 46

LabelChars(role) ==
  CASE role = Payer -> 5
    [] role = Receiver -> 8
    [] OTHER -> 7

\* "## " label " (" submitter ")\n"
TitleChars(role) == 3 + LabelChars(role) + 2 + SubmitterChars + 2

\* The section's title, "Submitted: " timestamp "\n", "CID: " cid "\n\n",
\* the content and "\n".
SectionChars(role, contentChars) ==
  TitleChars(role) + 11 + TimestampChars + 1 + 5 + CidChars + 2 + contentChars + 1

\* truncate (unnamed/part_007:28-31) of a text of the given length: the
\* characters kept, whether the marker follows, the length returned.
truncate(length, maxLen) ==
  IF length <= maxLen THEN [kept |-> length, marker |-> FALSE, chars |-> length]
  ELSE [kept |-> maxLen, marker |-> TRUE, chars |-> maxLen + EntryMarkerChars]

\* The content as prompts.ts:31 passes it on, uncut.
Whole(length) == [kept |-> length, marker |-> FALSE, chars |-> length]

RECURSIVE SumChars(_, _)
SumChars(contents, roles) ==
  IF contents = <<>> THEN 0
  ELSE SectionChars(Head(roles), Head(contents).chars) + 1 + SumChars(Tail(contents), Tail(roles))

\* The loop skipping the entries whose role has no label.
SectionsOf_KnownRoles(entries, contents) ==
  LET known == {i \in 1..Len(entries) : entries[i].role \in {Payer, Receiver, Arbiter}}
      nth(k) == CHOOSE i \in known : Cardinality({j \in known : j < i}) = k - 1
  IN [k \in 1..Cardinality(known) |->
        [label |-> ROLE_LABELS(entries[nth(k)].role),
         start |-> HeadingChars + 1 + SumChars([m \in 1..(k - 1) |-> contents[nth(m)]],
                                               [m \in 1..(k - 1) |-> entries[nth(m)].role]),
         title |-> TitleChars(entries[nth(k)].role),
         kept |-> contents[nth(k)].kept,
         marker |-> contents[nth(k)].marker,
         chars |-> SectionChars(entries[nth(k)].role, contents[nth(k)].chars)]]

\* The sections pushed by the loop, with the offset of each in the joined text.
SectionsOf(entries, contents) ==
  [i \in 1..Len(entries) |->
     [label |-> ROLE_LABELS(entries[i].role),
      start |-> HeadingChars + 1 + SumChars(SubSeq(contents, 1, i - 1), [j \in 1..(i - 1) |-> entries[j].role]),
      title |-> TitleChars(entries[i].role),
      kept |-> contents[i].kept,
      marker |-> contents[i].marker,
      chars |-> SectionChars(entries[i].role, contents[i].chars)]]

\* sections.join("\n"): heading, sections and closing line with a newline
\* between consecutive pieces.
JoinedChars(entries, contents) ==
  HeadingChars + 1 + SumChars(contents, [j \in 1..Len(entries) |-> entries[j].role]) + ClosingChars

\* buildPrompt of prompts.ts:23-46: no cut anywhere.
buildPromptWhole(entries) ==
  LET contents == [i \in 1..Len(entries) |-> Whole(entries[i].content)]
      sections == SectionsOf(entries, contents)
      joined == JoinedChars(entries, contents)
  IN [sections |-> sections, joined |-> joined, chars |-> joined, marker |-> FALSE]

\* buildPrompt of unnamed/part_007:33-62: each content through truncate, the
\* joined text through slice(0, MAX_PROMPT_CHARS) and the marker.
buildPromptCapped(entries) ==
  LET contents == [i \in 1..Len(entries) |-> truncate(entries[i].content, MAX_EVIDENCE_CHARS_PER_ENTRY)]
      sections == SectionsOf(entries, contents)
      joined == JoinedChars(entries, contents)
  IN [sections |-> sections,
      joined |-> joined,
      chars |-> IF joined > MAX_PROMPT_CHARS THEN MAX_PROMPT_CHARS + PromptMarkerChars ELSE joined,
      marker |-> joined > MAX_PROMPT_CHARS]

\* Step 7: the JSON the arbiter submits as its evidence.
EvidenceCid(prompt, seed, display, threshold) ==
  LET decision == ParseDecision(display)
  IN [type |-> "arbiter-ruling",
      decision |-> Outcome(decision, threshold),
      reasoning |-> decision.reasoning,
      confidence |-> decision.confidence,
      commitment |-> createCommitment(prompt, seed, display),
      model |-> EIGENAI_MODEL]

HasRole(ev, role) == \E i \in 1..Len(ev) : ev[i].role = role
RoleCount(ev, role) == Cardinality({i \in 1..Len(ev) : ev[i].role = role})

\* ------------------------------------------------------------------ state
VARIABLES
  evidence,           \* ledger: dispute -> evidence entries in append order
  status,             \* ledger: dispute -> None, Pending, Approved, Denied, Cancelled
  events,             \* ledger: disputes in the order of their RefundRequested events
  refunded,           \* escrow: dispute -> the payment has been refunded
  paymentInfoCache,   \* index.ts:139
  evaluatedDisputes,  \* index.ts:142
  orderedDisputeKeys, \* index.ts:145
  indexedDisputes,    \* index.ts:149, in Map insertion order
  frame,              \* the callback each poller firing or request is running
  outcome,            \* what the step just taken reported: the result or error of an
                      \* evaluateDispute call that ended in it, else nothing
  writeFailed,        \* disputes an evaluation of which ended on a failed ledger write
  answers,            \* EigenAI: the (prompt, seed, display) answers a deterministic model has given
  replay,             \* what the step just taken answered to a replay request, else nothing
  applied,            \* a call of a function of the repository on its own: name, input, result
  processed,          \* merchant-bot.ts:134
  bot                 \* merchant bot: its scans in progress, its wallet, the ledger calls that have failed it

vars == <<evidence, status, events, refunded, paymentInfoCache, evaluatedDisputes,
          orderedDisputeKeys, indexedDisputes, frame, outcome, writeFailed, answers, replay, applied,
          processed, bot>>

ledger == <<evidence, status, events, refunded>>

caches == <<paymentInfoCache, orderedDisputeKeys, indexedDisputes>>

\* pc names the ledger call the callback is awaiting.
IdleFrame == [pc |-> "idle", d |-> 0, pos |-> 0, evidence |-> <<>>, lost |-> {}, failed |-> {},
              prompt |-> <<>>, seed |-> 0, display |-> <<>>]

NoOutcome == [st |-> "none", why |-> "", refund |-> "none", d |-> 0]

NoCall == [fn |-> "none", input |-> <<>>, result |-> <<>>]

\* The merchant bot: each scan is idle or awaits a ledger call for the
\* dispute at position pos of the logs; wallet tells whose key getMerchantKey
\* returns.
Scans == 1..NumScans
IdleScan == [pc |-> "idle", d |-> 0, pos |-> 0]
IdleBot == [scan |-> [s \in Scans |-> IdleScan], wallet |-> "receiver", faults |-> 0]

NoReplay == [st |-> "none", by |-> "", d |-> 0, credential |-> "", prompt |-> <<>>, failed |-> {},
             commitment |-> <<>>, originalCommitment |-> <<>>]

EvalPcs == {"getAllEvidence", "submitEvidence", "approve", "deny", "refund"}

Evaluating(p) == frame[p].pc \in EvalPcs

\* The model explores at most MaxConcurrent callbacks in progress at a time.
Running == {p \in Procs : frame[p].pc # "idle"}
MayStart(cap) == Cardinality(Running) < cap

\* Evaluations of d that have not yet written their evidence.
Unwritten(d) == {p \in Procs : frame[p].d = d /\ frame[p].pc \in {"getAllEvidence", "submitEvidence"}}

\* The model explores at most MaxEvals Arbiter entries per dispute.
BelowCap(d) == RoleCount(evidence[d], Arbiter) + Cardinality(Unwritten(d)) < MaxEvals

Init ==
  /\ evidence = [d \in Disputes |-> <<>>]
  /\ status = [d \in Disputes |-> "None"]
  /\ events = <<>>
  /\ refunded = [d \in Disputes |-> FALSE]
  /\ paymentInfoCache = {}
  /\ evaluatedDisputes = {}
  /\ orderedDisputeKeys = <<>>
  /\ indexedDisputes = <<>>
  /\ frame = [p \in Procs |-> IdleFrame]
  /\ outcome = NoOutcome
  /\ writeFailed = {}
  /\ answers = {}
  /\ replay = NoReplay
  /\ applied = NoCall
  /\ processed = {}
  /\ bot = IdleBot

\* A step in which no evaluateDispute call ends reports nothing, and a step
\* that answers no replay request leaves no replay answer.
NoAnswer == replay' = NoReplay /\ UNCHANGED <<applied, processed, bot>>
Quiet == outcome' = NoOutcome /\ NoAnswer

\* ------------------------------------------------------------- the ledger
\* The payer files a refund request: the ledger emits RefundRequested.
RefundRequested(d) ==
  /\ status[d] = "None"
  /\ status' = [status EXCEPT ![d] = "Pending"]
  /\ events' = Append(events, d)
  /\ Quiet
  /\ UNCHANGED <<evidence, refunded, caches, evaluatedDisputes, frame, writeFailed, answers>>

PartyEntry(ev, role, id) ==
  [submitter |-> ROLE_LABELS(role), role |-> role, timestamp |-> Len(ev) + 1, cid |-> IpfsCid(id)]

\* A party appends evidence to a dispute (possibly again, for a role that
\* already has an entry).
PartySubmitEvidence(d, role, id) ==
  /\ status[d] # "None"
  /\ RoleCount(evidence[d], Payer) + RoleCount(evidence[d], Receiver) < MaxPartyEvidence
  /\ evidence' = [evidence EXCEPT ![d] = Append(@, PartyEntry(@, role, id))]
  /\ Quiet
  /\ UNCHANGED <<status, events, refunded, caches, evaluatedDisputes, frame, writeFailed, answers>>

\* The payer cancels a pending request.
CancelRefundRequest(d) ==
  /\ status[d] = "Pending"
  /\ status' = [status EXCEPT ![d] = "Cancelled"]
  /\ Quiet
  /\ UNCHANGED <<evidence, events, refunded, caches, evaluatedDisputes, frame, writeFailed, answers>>

ArbiterEntry(ev, f) ==
  [submitter |-> ROLE_LABELS(Arbiter), role |-> Arbiter, timestamp |-> Len(ev) + 1,
   cid |-> EvidenceCid(f.prompt, f.seed, f.display, CONFIDENCE_THRESHOLD)]

\* What an awaited ledger transaction does: "ok" when it lands, "revert"
\* when the contract rejects it, "err" when the call fails in transit.
\* A ruling lands on a pending request and reverts on any other; a refund
\* moves the funds once and reverts afterwards.
TxResult(f, sent) ==
  IF ~sent THEN "err"
  ELSE IF f.pc \in {"approve", "deny"} /\ status[f.d] # "Pending" THEN "revert"
  ELSE IF f.pc = "refund" /\ refunded[f.d] THEN "revert"
  ELSE "ok"

\* ------------------------------------------------------------ the arbiter
\* Keys of the log not yet in the Map, in log order.
NewKeys(indexed, log) == SelectSeq(log, LAMBDA d : d \notin Range(indexed))

IndexedAfter(ok) == IF ok THEN indexedDisputes \o NewKeys(indexedDisputes, events) ELSE indexedDisputes

\* indexAndCachePaymentInfo (index.ts:152-232): on the log it fills the
\* caches, on an RPC error it warns and changes nothing.
indexAndCachePaymentInfo(ok) ==
  /\ indexedDisputes' = IndexedAfter(ok)
  /\ paymentInfoCache' = IF ok THEN paymentInfoCache \cup Range(events) ELSE paymentInfoCache
  /\ orderedDisputeKeys' = IF ok THEN Reverse(events) ELSE orderedDisputeKeys

\* The poller's for-loop over indexedDisputes from position pos on: skip the
\* keys in evaluatedDisputes and await getAllEvidence for the next one; the
\* callback ends when the Map is exhausted.
Advance(evaluated, indexed, pos) ==
  LET next == {i \in (pos + 1)..Len(indexed) : indexed[i] \notin evaluated}
  IN IF next = {} THEN IdleFrame
     ELSE [IdleFrame EXCEPT !.pc = "poll", !.d = indexed[Min(next)], !.pos = Min(next)]

\* setInterval fires the 15 s index timer (index.ts:611).
IndexTimer ==
  /\ \E ok \in BOOLEAN : indexAndCachePaymentInfo(ok)
  /\ Quiet
  /\ UNCHANGED <<ledger, evaluatedDisputes, frame, writeFailed, answers>>

\* setInterval fires the auto-evaluation poller (index.ts:626-632), whether
\* or not an earlier firing is still awaiting: it re-indexes and enters its
\* loop.  Firings take the free frame of lowest number.
PollerTick(p, cap) ==
  /\ p \in Ticks
  /\ frame[p].pc = "idle"
  /\ \A q \in Ticks : frame[q].pc = "idle" => p[2] <= q[2]
  /\ MayStart(cap)
  /\ \E ok \in BOOLEAN :
       /\ indexAndCachePaymentInfo(ok)
       /\ frame' = [frame EXCEPT ![p] = Advance(evaluatedDisputes, IndexedAfter(ok), 0)]
  /\ Quiet
  /\ UNCHANGED <<ledger, evaluatedDisputes, writeFailed, answers>>

StartEvaluate(f, d) == [f EXCEPT !.pc = "getAllEvidence", !.d = d]

PollError(d) == [NoOutcome EXCEPT !.st = "poll error", !.d = d]

\* The poller's getAllEvidence fails: the outer catch logs the poll error and
\* the firing ends (index.ts:664-666).
PollerReadFailed(p) ==
  /\ frame[p].pc = "poll"
  /\ frame' = [frame EXCEPT ![p] = IdleFrame]
  /\ outcome' = PollError(frame[p].d)
  /\ NoAnswer
  /\ UNCHANGED <<ledger, caches, evaluatedDisputes, writeFailed, answers>>

\* The loop body without its check that both parties have submitted.
PollerEvidenceRead_NoPartyCheck(p) ==
  /\ frame[p].pc = "poll"
  /\ LET d == frame[p].d
     IN IF HasRole(evidence[d], Arbiter)
          THEN /\ evaluatedDisputes' = evaluatedDisputes \cup {d}
               /\ frame' = [frame EXCEPT ![p] = Advance(evaluatedDisputes', indexedDisputes, frame[p].pos)]
        ELSE /\ BelowCap(d)
             /\ evaluatedDisputes' = evaluatedDisputes \cup {d}
             /\ frame' = [frame EXCEPT ![p] = StartEvaluate(frame[p], d)]
  /\ Quiet
  /\ UNCHANGED <<ledger, caches, writeFailed, answers>>

\* The poller's getAllEvidence returns and its loop body runs
\* (index.ts:634-652).
PollerEvidenceRead(p) ==
  /\ frame[p].pc = "poll"
  /\ LET d == frame[p].d
         allEvidence == evidence[d]
         hasPayerEvidence == HasRole(allEvidence, Payer)
         hasReceiverEvidence == HasRole(allEvidence, Receiver)
         hasArbiterEvidence == HasRole(allEvidence, Arbiter)
     IN IF hasArbiterEvidence
          THEN /\ evaluatedDisputes' = evaluatedDisputes \cup {d}
               /\ frame' = [frame EXCEPT ![p] = Advance(evaluatedDisputes', indexedDisputes, frame[p].pos)]
        ELSE IF ~hasPayerEvidence \/ ~hasReceiverEvidence
          THEN /\ frame' = [frame EXCEPT ![p] = Advance(evaluatedDisputes, indexedDisputes, frame[p].pos)]
               /\ UNCHANGED evaluatedDisputes
        ELSE /\ BelowCap(d)
             /\ evaluatedDisputes' = evaluatedDisputes \cup {d}
             /\ frame' = [frame EXCEPT ![p] = StartEvaluate(frame[p], d)]
  /\ Quiet
  /\ UNCHANGED <<ledger, caches, writeFailed, answers>>

\* POST /api/evaluate arrives (index.ts:430-447).
ManualEvaluate(p, d, cap) ==
  /\ p \in Manuals
  /\ frame[p].pc = "idle"
  /\ MayStart(cap)
  /\ BelowCap(d)
  /\ paymentInfoCache' = paymentInfoCache \cup {d}
  /\ frame' = [frame EXCEPT ![p] = StartEvaluate(IdleFrame, d)]
  /\ Quiet
  /\ UNCHANGED <<ledger, evaluatedDisputes, orderedDisputeKeys, indexedDisputes, writeFailed, answers>>

\* evaluateDispute ends and the poller keeps the key whatever the end was.
Finish_KeepKeyOnThrow(p, out) ==
  /\ outcome' = [out EXCEPT !.d = frame[p].d]
  /\ NoAnswer
  /\ evaluatedDisputes' =
       IF p \in Ticks \/ out.st # "result" THEN evaluatedDisputes ELSE evaluatedDisputes \cup {frame[p].d}
  /\ frame' = [frame EXCEPT ![p] = IF p \in Ticks
                                     THEN Advance(evaluatedDisputes', indexedDisputes, frame[p].pos)
                                     ELSE IdleFrame]

\* evaluateDispute ends and its caller resumes.  The poller keeps the key on
\* a result, deletes it on a throw and moves on in its loop (index.ts:651-663);
\* the request handler adds the key on a result and answers (index.ts:447-457).
Finish(p, out) ==
  /\ outcome' = [out EXCEPT !.d = frame[p].d]
  /\ NoAnswer
  /\ evaluatedDisputes' =
       IF p \in Ticks
         THEN (IF out.st = "result" THEN evaluatedDisputes ELSE evaluatedDisputes \ {frame[p].d})
         ELSE (IF out.st = "result" THEN evaluatedDisputes \cup {frame[p].d} ELSE evaluatedDisputes)
  /\ frame' = [frame EXCEPT ![p] = IF p \in Ticks
                                     THEN Advance(evaluatedDisputes', indexedDisputes, frame[p].pos)
                                     ELSE IdleFrame]

Throw(why) == [NoOutcome EXCEPT !.st = "error", !.why = why]

Returned(refund) == [NoOutcome EXCEPT !.st = "result", !.refund = refund]

\* The entries of ev whose content is fetched from a cid in unreachable: the
\* fetch of each of them may throw.
MayFail(ev, unreachable) == {i \in 1..Len(ev) : ev[i].cid.type = "ipfs" /\ ev[i].cid \in unreachable}

\* Step 2: evidenceContent is a Map keyed by cid, filled in ledger order
\* (index.ts:327-339): the cids left with the sentinel are those whose last
\* entry is in lost, the entries whose fetch threw.
SentinelCids(ev, lost) ==
  {ev[i].cid : i \in {j \in 1..Len(ev) : Max({k \in 1..Len(ev) : ev[k].cid = ev[j].cid}) \in lost}}

\* Step 1 with its check dropped.
NoEvidence_Unchecked(ev) == FALSE

\* Step 1: evidence.length === 0 (index.ts:322).
NoEvidence(ev) == Len(ev) = 0

\* The answers a deterministic model has already given to (prompt, seed).
Asked(prompt, seed) == {a \in answers : a.prompt = prompt /\ a.seed = seed}

\* eigenai.evaluate: the model's content for (prompt, seed).  A deterministic
\* model repeats the answer it gave before; otherwise it gives any of
\* responses.  The model explores at most MaxAnswers remembered answers.
MayAnswer(prompt, seed, content, responses, deterministic) ==
  IF deterministic /\ Asked(prompt, seed) # {}
    THEN content \in {a.display : a \in Asked(prompt, seed)}
    ELSE content \in responses /\ (deterministic => Cardinality(answers) < MaxAnswers)

Remember(prompt, seed, content, deterministic) ==
  IF deterministic THEN answers \cup {[prompt |-> prompt, seed |-> seed, display |-> content]} ELSE answers

\* evaluateDispute's getAllEvidence returns: steps 1 to 7 up to the
\* submitEvidence call (index.ts:321-396).  The model answers with one of
\* responses, Math.random draws one of seeds, and the fetch of a cid in
\* unreachable may fail.
EvalGotEvidence(p, responses, seeds, unreachable, deterministic) ==
  /\ frame[p].pc = "getAllEvidence"
  /\ LET ev == evidence[frame[p].d]
     IN \/ /\ Finish(p, Throw("rpc"))
           /\ UNCHANGED answers
        \/ /\ NoEvidence(ev)
           /\ Finish(p, Throw("No evidence submitted for this dispute"))
           /\ UNCHANGED answers
        \/ /\ ~NoEvidence(ev)
           /\ \E lost \in SUBSET MayFail(ev, unreachable), seed \in seeds :
                \/ /\ Finish(p, Throw("eigenai"))
                   /\ UNCHANGED answers
                \/ \E content \in responses, c \in Channels :
                     LET failed == SentinelCids(ev, lost)
                         userPrompt == buildPrompt(ev, failed)
                         displayContent == stripTags(RawResponse(c, content))
                     IN /\ MayAnswer(userPrompt, seed, content, responses, deterministic)
                        /\ answers' = Remember(userPrompt, seed, content, deterministic)
                        /\ IF DecisionThrows(displayContent)
                             THEN Finish(p, Throw("Failed to parse AI response"))
                             ELSE /\ frame' = [frame EXCEPT ![p].pc = "submitEvidence",
                                                            ![p].evidence = ev,
                                                            ![p].lost = lost,
                                                            ![p].failed = failed,
                                                            ![p].prompt = userPrompt,
                                                            ![p].seed = seed,
                                                            ![p].display = displayContent]
                                  /\ Quiet
                                  /\ UNCHANGED evaluatedDisputes
  /\ UNCHANGED <<ledger, caches, writeFailed>>

\* The ruling sent whether or not submitEvidence landed.
EvalEvidenceSubmitted_Unchecked(p) ==
  /\ frame[p].pc = "submitEvidence"
  /\ \E sent \in BOOLEAN :
       /\ evidence' = IF TxResult(frame[p], sent) = "ok"
                        THEN [evidence EXCEPT ![frame[p].d] = Append(@, ArbiterEntry(@, frame[p]))]
                        ELSE evidence
       /\ frame' = [frame EXCEPT ![p].pc =
                      IF MeetsThreshold(ParseDecision(frame[p].display), CONFIDENCE_THRESHOLD)
                        THEN "approve" ELSE "deny"]
  /\ Quiet
  /\ UNCHANGED <<status, events, refunded, caches, evaluatedDisputes, writeFailed, answers>>

\* submitEvidence returns: step 8 sends the ruling (index.ts:392-424).
EvalEvidenceSubmitted(p) ==
  /\ frame[p].pc = "submitEvidence"
  /\ \E sent \in BOOLEAN :
       IF TxResult(frame[p], sent) = "ok"
         THEN /\ evidence' = [evidence EXCEPT ![frame[p].d] = Append(@, ArbiterEntry(@, frame[p]))]
              /\ frame' = [frame EXCEPT ![p].pc =
                             IF MeetsThreshold(ParseDecision(frame[p].display), CONFIDENCE_THRESHOLD)
                               THEN "approve" ELSE "deny"]
              /\ Quiet
              /\ UNCHANGED <<evaluatedDisputes, writeFailed>>
         ELSE /\ Finish(p, Throw("submitEvidence"))
              /\ writeFailed' = writeFailed \cup {frame[p].d}
              /\ UNCHANGED evidence
  /\ UNCHANGED <<status, events, refunded, caches, answers>>

\* The ruling transaction returns (index.ts:409-426): after an approval the
\* refund is sent, after a denial evaluateDispute returns.
EvalRuled_RefundAfterAnyRuling(p) ==
  /\ frame[p].pc \in {"approve", "deny"}
  /\ \E sent \in BOOLEAN :
       LET tx == TxResult(frame[p], sent)
       IN IF tx = "ok"
            THEN /\ status' = [status EXCEPT ![frame[p].d] = IF frame[p].pc = "approve" THEN "Approved" ELSE "Denied"]
                 /\ frame' = [frame EXCEPT ![p].pc = "refund"]
                 /\ Quiet
                 /\ UNCHANGED <<evaluatedDisputes, writeFailed>>
            ELSE /\ Finish(p, Throw(tx))
                 /\ writeFailed' = IF tx = "err" THEN writeFailed \cup {frame[p].d} ELSE writeFailed
                 /\ UNCHANGED status
  /\ UNCHANGED <<evidence, events, refunded, caches, answers>>

EvalRuled(p) ==
  /\ frame[p].pc \in {"approve", "deny"}
  /\ \E sent \in BOOLEAN :
       LET tx == TxResult(frame[p], sent)
       IN IF tx = "ok"
            THEN /\ status' = [status EXCEPT ![frame[p].d] = IF frame[p].pc = "approve" THEN "Approved" ELSE "Denied"]
                 /\ IF frame[p].pc = "approve"
                      THEN /\ frame' = [frame EXCEPT ![p].pc = "refund"]
                           /\ Quiet
                           /\ UNCHANGED evaluatedDisputes
                      ELSE Finish(p, Returned("none"))
                 /\ UNCHANGED writeFailed
            ELSE /\ Finish(p, Throw(tx))
                 /\ writeFailed' = IF tx = "err" THEN writeFailed \cup {frame[p].d} ELSE writeFailed
                 /\ UNCHANGED status
  /\ UNCHANGED <<evidence, events, refunded, caches, answers>>

\* A failed refund rethrown instead of attached to the result.
EvalRefunded_Fatal(p) ==
  /\ frame[p].pc = "refund"
  /\ \E sent \in BOOLEAN :
       LET tx == TxResult(frame[p], sent)
       IN /\ refunded' = IF tx = "ok" THEN [refunded EXCEPT ![frame[p].d] = TRUE] ELSE refunded
          /\ Finish(p, IF tx = "ok" THEN Returned("refundTx") ELSE Throw(tx))
  /\ UNCHANGED <<evidence, status, events, caches, writeFailed, answers>>

\* executeRefundInEscrow returns and evaluateDispute returns its result
\* (index.ts:414-426).
EvalRefunded(p) ==
  /\ frame[p].pc = "refund"
  /\ \E sent \in BOOLEAN :
       LET tx == TxResult(frame[p], sent)
       IN /\ refunded' = IF tx = "ok" THEN [refunded EXCEPT ![frame[p].d] = TRUE] ELSE refunded
          /\ Finish(p, Returned(IF tx = "ok" THEN "refundTx" ELSE "refundError"))
  /\ UNCHANGED <<evidence, status, events, caches, writeFailed, answers>>

\* ----------------------------------------------------------------- replay
\* The account that signs the arbiter's EigenAI grants (index.ts:83-85, 136)
\* and the one the court UI is configured with (VERIFIER_PRIVATE_KEY).
ArbiterAccount == "account"
VerifierAccount == "VERIFIER_PRIVATE_KEY"

RECURSIVE FirstPerRole(_, _)
FirstPerRole(entries, seen) ==
  IF entries = <<>> THEN <<>>
  ELSE IF Head(entries).role \in seen THEN FirstPerRole(Tail(entries), seen)
  ELSE <<Head(entries)>> \o FirstPerRole(Tail(entries), seen \cup {Head(entries).role})

\* firstEvidencePerRole (court-ui /api/verify): the earliest entry of each role.
firstEvidencePerRole(entries) == FirstPerRole(entries, {})

\* The seed of the first Arbiter entry that carries one, else the default.
RECURSIVE ReplaySeed(_, _)
ReplaySeed(arbiterEvidence, default) ==
  IF arbiterEvidence = <<>> THEN default
  ELSE LET parsed == Head(arbiterEvidence).cid
       IN IF "commitment" \in DOMAIN parsed /\ "seed" \in DOMAIN parsed.commitment THEN parsed.commitment.seed
          ELSE IF "seed" \in DOMAIN parsed THEN parsed.seed
          ELSE ReplaySeed(Tail(arbiterEvidence), default)

\* getEvidenceBatch as the court UI calls it (contracts.ts:146-161): offset 0
\* and the default count.
BatchCount == 50
DEFAULT_SEED == 42

getEvidenceBatch(entries) == SubSeq(entries, 1, Min({Len(entries), BatchCount}))

ReplayError(by, d) == [NoReplay EXCEPT !.st = "error", !.by = by, !.d = d]

\* A replay asks the model: the answer comes back as replayCommitment.
ReplayCall(by, d, credential, ev, seed, original, responses, unreachable, deterministic) ==
  \E lost \in SUBSET MayFail(ev, unreachable) :
    LET failed == SentinelCids(ev, lost)
        userPrompt == buildPrompt(ev, failed)
    IN \/ /\ replay' = ReplayError(by, d)
          /\ UNCHANGED answers
       \/ \E content \in responses, c \in Channels :
            /\ MayAnswer(userPrompt, seed, content, responses, deterministic)
            /\ answers' = Remember(userPrompt, seed, content, deterministic)
            /\ replay' = [st |-> "replayed", by |-> by, d |-> d, credential |-> credential,
                          prompt |-> userPrompt, failed |-> failed,
                          commitment |-> createCommitment(userPrompt, seed, stripTags(RawResponse(c, content))),
                          originalCommitment |-> original]

\* POST /api/verify of the arbiter (index.ts:500-572): the prompt is built
\* from every entry that is not the Arbiter's and the model is called through
\* the arbiter's own client.
VerifyReplay(d, responses, unreachable, deterministic) ==
  /\ \/ /\ replay' = ReplayError("arbiter", d)
        /\ UNCHANGED answers
     \/ LET allEvidence == evidence[d]
            arbiterEvidence == SelectSeq(allEvidence, LAMBDA e : e.role = Arbiter)
            ev == SelectSeq(allEvidence, LAMBDA e : e.role # Arbiter)
        IN ReplayCall("arbiter", d, ArbiterAccount, ev, ReplaySeed(arbiterEvidence, EIGENAI_SEED), <<>>,
                      responses, unreachable, deterministic)
  /\ outcome' = NoOutcome
  /\ UNCHANGED <<ledger, caches, evaluatedDisputes, frame, writeFailed, applied, processed, bot>>

\* POST /api/verify of the court UI: the earliest entry per role, the
\* parties' entries in the prompt, the model called with the verifier's key.
CourtVerify(d, responses, unreachable, deterministic) ==
  /\ \/ /\ replay' = ReplayError("court-ui", d)
        /\ UNCHANGED answers
     \/ LET deduped == firstEvidencePerRole(getEvidenceBatch(evidence[d]))
            arbiterEvidence == SelectSeq(deduped, LAMBDA e : e.role = Arbiter)
            partyEvidence == SelectSeq(deduped, LAMBDA e : e.role # Arbiter)
        IN IF partyEvidence = <<>>
             THEN /\ replay' = [ReplayError("court-ui", d) EXCEPT !.st = "No party evidence found for this dispute"]
                  /\ UNCHANGED answers
             ELSE ReplayCall("court-ui", d, VerifierAccount, partyEvidence, ReplaySeed(arbiterEvidence, DEFAULT_SEED),
                             IF arbiterEvidence = <<>> THEN <<>> ELSE arbiterEvidence[1].cid.commitment,
                             responses, unreachable, deterministic)
  /\ outcome' = NoOutcome
  /\ UNCHANGED <<ledger, caches, evaluatedDisputes, frame, writeFailed, applied, processed, bot>>

\* ------------------------------------------------------- fetchWithRetry
\* What one call of fetch gives: a response with a status, or a rejection
\* (the network failed, the request was aborted).
Response(code) == [kind |-> "response", status |-> code]
NetworkError == [kind |-> "error", status |-> 0]

maxRetries == 3

Retryable_Only429(code) == code = 429

\* api.ts:9
Retryable(code) == code = 429 \/ code >= 500

\* The loop of fetchWithRetry from the given attempt on (api.ts:7-17);
\* fetches[i] is what the i-th call of fetch gives. The result tells how
\* many calls were made, what came back and after which delays (ms).
RECURSIVE Attempts(_, _, _, _)
Attempts(fetches, attempt, retries, delays) ==
  IF attempt >= retries
    THEN [calls |-> attempt + 1, returned |-> fetches[attempt + 1], delays |-> delays]
    ELSE LET res == fetches[attempt + 1]
         IN IF res.kind = "error"
              THEN [calls |-> attempt + 1, returned |-> res, delays |-> delays]
            ELSE IF Retryable(res.status) /\ attempt < retries - 1
              THEN Attempts(fetches, attempt + 1, retries, Append(delays, 1000 * 2^attempt))
            ELSE [calls |-> attempt + 1, returned |-> res, delays |-> delays]

fetchWithRetry(fetches) == Attempts(fetches, 0, maxRetries, <<>>)

\* ------------------------------------------------------- the dashboard
PAGE_SIZE == 10

\* GET /api/disputes (index.ts:461-479) on `listed` ordered keys: how many
\* keys the page holds, and the total.
listDisputes(listed, offset, count) ==
  [keys |-> Max({0, Min({listed, offset + count}) - offset}), total |-> listed]

\* loadDisputes (page.tsx:76-120): the state of the Dashboard after the
\* page at newOffset is loaded, `stale` of its disputes being pending for
\* more than five minutes and left out.
loadDisputes(listed, newOffset, stale) ==
  LET list == listDisputes(listed, newOffset, PAGE_SIZE)
      visible == list.keys - Min({stale, list.keys})
  IN [offset |-> newOffset, total |-> visible, disputes |-> visible]

\* The pagination block (page.tsx:189-214).
Pagination(dashboard) ==
  [shown |-> dashboard.total > PAGE_SIZE,
   previousDisabled |-> dashboard.offset = 0,
   nextDisabled |-> dashboard.offset + PAGE_SIZE >= dashboard.total]

\* ------------------------------------------------------- the merchant bot
BotQuiet ==
  /\ outcome' = NoOutcome
  /\ replay' = NoReplay
  /\ UNCHANGED <<caches, evaluatedDisputes, frame, writeFailed, answers, applied>>

\* A ledger call of the bot may fail; the model explores at most MaxFaults
\* failed calls.
MayFault == bot.faults < MaxFaults

\* The loop of scanExistingDisputes from the log after position pos
\* (merchant-bot.ts:254-275) with the synchronous head of handleDispute
\* (177-204): a key in processed is skipped, any other key is added to
\* processed, and the loop stops at the await of getAllEvidence when the
\* wallet is the receiver's.
\* The loop with handleDispute never recording the key it takes up.
RECURSIVE ScanFrom_NoMark(_, _, _)
ScanFrom_NoMark(pos, done, wallet) ==
  IF pos >= Len(events) THEN [scan |-> IdleScan, processed |-> done]
  ELSE IF wallet # "receiver" THEN ScanFrom_NoMark(pos + 1, done, wallet)
  ELSE [scan |-> [pc |-> "getAllEvidence", d |-> events[pos + 1], pos |-> pos + 1], processed |-> done]

RECURSIVE ScanFrom(_, _, _)
ScanFrom(pos, done, wallet) ==
  IF pos >= Len(events) THEN [scan |-> IdleScan, processed |-> done]
  ELSE LET key == events[pos + 1]
       IN IF key \in done THEN ScanFrom(pos + 1, done, wallet)
          ELSE IF wallet # "receiver" THEN ScanFrom(pos + 1, done \cup {key}, wallet)
          ELSE [scan |-> [pc |-> "getAllEvidence", d |-> key, pos |-> pos + 1],
                processed |-> done \cup {key}]

HasMerchantEvidence(d) ==
  \E i \in 1..Len(evidence[d]) : evidence[d][i].submitter = ROLE_LABELS(Receiver)

\* The state file gets the key of the dispute's receiver
\* (merchant-bot.ts:72-85, read again at 188).
KeyChanged ==
  /\ bot.wallet # "receiver"
  /\ bot' = [bot EXCEPT !.wallet = "receiver"]
  /\ BotQuiet
  /\ UNCHANGED <<ledger, processed>>

\* A scan starts, at startup or on the 15 s interval, and its two reads
\* return (merchant-bot.ts:241-252, 285-296); a failed read ends the scan.
BotScan(s) ==
  /\ bot.scan[s].pc = "idle"
  /\ \A t \in Scans : bot.scan[t].pc = "idle" => s <= t
  /\ \/ /\ MayFault
        /\ bot' = [bot EXCEPT !.faults = @ + 1]
        /\ UNCHANGED processed
     \/ LET next == ScanFrom(0, processed, bot.wallet)
        IN /\ bot' = [bot EXCEPT !.scan[s] = next.scan]
           /\ processed' = next.processed
  /\ BotQuiet
  /\ UNCHANGED ledger

\* handleDispute's getAllEvidence ends (merchant-bot.ts:206-227, 233-235).
BotGotEvidence(s) ==
  /\ bot.scan[s].pc = "getAllEvidence"
  /\ \/ /\ MayFault
        /\ LET next == ScanFrom(bot.scan[s].pos, processed, bot.wallet)
           IN /\ bot' = [bot EXCEPT !.scan[s] = next.scan, !.faults = @ + 1]
              /\ processed' = next.processed
     \/ IF HasMerchantEvidence(bot.scan[s].d)
          THEN LET next == ScanFrom(bot.scan[s].pos, processed, bot.wallet)
               IN /\ bot' = [bot EXCEPT !.scan[s] = next.scan]
                  /\ processed' = next.processed
          ELSE /\ bot' = [bot EXCEPT !.scan[s].pc = "submitEvidence"]
               /\ UNCHANGED processed
  /\ BotQuiet
  /\ UNCHANGED ledger

\* handleDispute's submitEvidence ends (merchant-bot.ts:223-230, 233-235).
BotSubmitted(s) ==
  /\ bot.scan[s].pc = "submitEvidence"
  /\ \/ /\ MayFault
        /\ LET next == ScanFrom(bot.scan[s].pos, processed, bot.wallet)
           IN /\ bot' = [bot EXCEPT !.scan[s] = next.scan, !.faults = @ + 1]
              /\ processed' = next.processed
        /\ UNCHANGED evidence
     \/ /\ evidence' = [evidence EXCEPT ![bot.scan[s].d] = Append(@, PartyEntry(@, Receiver, "QmMerchant"))]
        /\ bot' = [bot EXCEPT !.scan[s].pc = "waitForTransactionReceipt"]
        /\ UNCHANGED processed
  /\ BotQuiet
  /\ UNCHANGED <<status, events, refunded>>

\* waitForTransactionReceipt ends, one way or the other, and the loop goes on.
BotConfirmed(s) ==
  /\ bot.scan[s].pc = "waitForTransactionReceipt"
  /\ LET next == ScanFrom(bot.scan[s].pos, processed, bot.wallet)
     IN /\ bot' = [bot EXCEPT !.scan[s] = next.scan]
        /\ processed' = next.processed
  /\ BotQuiet
  /\ UNCHANGED ledger

\* ---------------------------------------------------------- specification
Next ==
  \/ \E d \in Disputes : RefundRequested(d)
  \/ \E d \in Disputes, role \in {Payer, Receiver}, id \in PartyCids : PartySubmitEvidence(d, role, id)
  \/ \E d \in Disputes : CancelRefundRequest(d)
  \/ IndexTimer
  \/ \E p \in Procs : PollerTick(p, MaxConcurrent)
  \/ \E p \in Procs : PollerReadFailed(p)
  \/ \E p \in Procs : PollerEvidenceRead(p)
  \/ \E p \in Procs, d \in Disputes : ManualEvaluate(p, d, MaxConcurrent)
  \/ \E p \in Procs : EvalGotEvidence(p, Responses, Seeds, {}, FALSE)
  \/ \E p \in Procs : EvalEvidenceSubmitted(p)
  \/ \E p \in Procs : EvalRuled(p)
  \/ \E p \in Procs : EvalRefunded(p)

Spec == Init /\ [][Next]_vars

\* The poller on its own: the behaviours of Next in which no request arrives
\* at POST /api/evaluate and no firing overlaps another.
PollerNext ==
  \/ \E d \in Disputes : RefundRequested(d)
  \/ \E d \in Disputes, role \in {Payer, Receiver}, id \in PartyCids : PartySubmitEvidence(d, role, id)
  \/ \E d \in Disputes : CancelRefundRequest(d)
  \/ IndexTimer
  \/ \E p \in Procs : PollerTick(p, 1)
  \/ \E p \in Procs : PollerReadFailed(p)
  \/ \E p \in Procs : PollerEvidenceRead(p)
  \/ \E p \in Procs : EvalGotEvidence(p, Responses, Seeds, {}, FALSE)
  \/ \E p \in Procs : EvalEvidenceSubmitted(p)
  \/ \E p \in Procs : EvalRuled(p)
  \/ \E p \in Procs : EvalRefunded(p)

\* The timer keeps firing the poller and every awaited call returns (weak
\* fairness of the continuations).  An external call that is made again and
\* again eventually succeeds, and the model eventually gives an answer that
\* parses (strong fairness of the successful continuations).
Fairness ==
  /\ WF_vars(\E p \in Ticks : PollerTick(p, 1))
  /\ \A p \in Procs :
       /\ SF_vars(PollerEvidenceRead(p))
       /\ WF_vars(EvalGotEvidence(p, Responses, Seeds, {}, FALSE))
       /\ SF_vars(EvalGotEvidence(p, Responses, Seeds, {}, FALSE) /\ frame'[p].pc = "submitEvidence")
       /\ WF_vars(EvalEvidenceSubmitted(p))
       /\ SF_vars(EvalEvidenceSubmitted(p) /\ frame'[p].pc \in {"approve", "deny"})
       /\ WF_vars(EvalRuled(p))
       /\ SF_vars(EvalRuled(p) /\ outcome'.st # "error")
       /\ WF_vars(EvalRefunded(p))

LiveSpec == Init /\ [][PollerNext]_vars /\ Fairness

\* Requests one at a time, to POST /api/evaluate and to the two replay
\* endpoints, with a deterministic model and two seeds.
ReplayResponses == {Obj("approve", "r", "0.7"), Obj("deny", "r", "0.9"), <<Word, Word>>}
ReplaySeeds == {7, 42}

ReplayNext ==
  \/ \E d \in Disputes : RefundRequested(d)
  \/ \E d \in Disputes, role \in {Payer, Receiver}, id \in PartyCids : PartySubmitEvidence(d, role, id)
  \/ \E p \in Procs, d \in Disputes : ManualEvaluate(p, d, 1)
  \/ \E p \in Procs : EvalGotEvidence(p, ReplayResponses, ReplaySeeds, {}, TRUE)
  \/ \E p \in Procs : EvalEvidenceSubmitted(p)
  \/ \E p \in Procs : EvalRuled(p)
  \/ \E p \in Procs : EvalRefunded(p)
  \/ \E d \in Disputes : VerifyReplay(d, ReplayResponses, {}, TRUE)
  \/ \E d \in Disputes : CourtVerify(d, ReplayResponses, {}, TRUE)

ReplaySpec == Init /\ [][ReplayNext]_vars

\* Requests to POST /api/evaluate one at a time, on evidence at two content
\* addresses either of which may fail to resolve.
FetchCids == {"QmA", "QmB"}
Unreachable == {IpfsCid(id) : id \in FetchCids}

FetchNext ==
  \/ \E d \in Disputes : RefundRequested(d)
  \/ \E d \in Disputes, role \in {Payer, Receiver}, id \in FetchCids : PartySubmitEvidence(d, role, id)
  \/ \E p \in Procs, d \in Disputes : ManualEvaluate(p, d, 1)
  \/ \E p \in Procs : EvalGotEvidence(p, ReplayResponses, Seeds, Unreachable, FALSE)
  \/ \E p \in Procs : EvalEvidenceSubmitted(p)
  \/ \E p \in Procs : EvalRuled(p)
  \/ \E p \in Procs : EvalRefunded(p)

FetchSpec == Init /\ [][FetchNext]_vars

\* A request to POST /api/evaluate beside one poller firing, with a
\* deterministic model and two seeds.
FirstTick == <<"tick", 1>>

RaceNext ==
  \/ \E d \in Disputes : RefundRequested(d)
  \/ \E d \in Disputes, role \in {Payer, Receiver}, id \in PartyCids : PartySubmitEvidence(d, role, id)
  \/ PollerTick(FirstTick, MaxConcurrent)
  \/ \E p \in Procs : PollerReadFailed(p)
  \/ \E p \in Procs : PollerEvidenceRead(p)
  \/ \E p \in Procs, d \in Disputes : ManualEvaluate(p, d, MaxConcurrent)
  \/ \E p \in Procs : EvalGotEvidence(p, ReplayResponses, ReplaySeeds, {}, TRUE)
  \/ \E p \in Procs : EvalEvidenceSubmitted(p)
  \/ \E p \in Procs : EvalRuled(p)
  \/ \E p \in Procs : EvalRefunded(p)

RaceSpec == Init /\ [][RaceNext]_vars

\* Replays of a dispute on which the parties have submitted up to MaxLedger
\* entries before the one evaluation, if any, wrote its Arbiter entry.
PartiesLedger(k) ==
  [i \in 1..k |-> [submitter |-> ROLE_LABELS(IF i = 1 THEN Payer ELSE Receiver),
                   role |-> IF i = 1 THEN Payer ELSE Receiver,
                   timestamp |-> i,
                   cid |-> IpfsCid("QmA")]]

SeedDisplay == Obj("approve", "r", "0.7")

EvaluatedLedger(k, seed) ==
  Append(PartiesLedger(k),
         ArbiterEntry(PartiesLedger(k),
                      [prompt |-> buildPrompt(PartiesLedger(k), {}), seed |-> seed, display |-> SeedDisplay]))

SeedInit ==
  /\ \E k \in 1..MaxLedger, seed \in ReplaySeeds, evaluated \in BOOLEAN :
       /\ evidence = [d \in Disputes |-> IF evaluated THEN EvaluatedLedger(k, seed) ELSE PartiesLedger(k)]
       /\ answers = IF evaluated
                      THEN {[prompt |-> buildPrompt(PartiesLedger(k), {}), seed |-> seed, display |-> SeedDisplay]}
                      ELSE {}
  /\ status = [d \in Disputes |-> "Pending"]
  /\ events = [i \in 1..NumDisputes |-> i]
  /\ refunded = [d \in Disputes |-> FALSE]
  /\ paymentInfoCache = {}
  /\ evaluatedDisputes = {}
  /\ orderedDisputeKeys = <<>>
  /\ indexedDisputes = <<>>
  /\ frame = [p \in Procs |-> IdleFrame]
  /\ outcome = NoOutcome
  /\ writeFailed = {}
  /\ replay = NoReplay
  /\ applied = NoCall
  /\ processed = {}
  /\ bot = IdleBot

SeedNext ==
  \/ \E d \in Disputes : VerifyReplay(d, {SeedDisplay}, {}, TRUE)
  \/ \E d \in Disputes : CourtVerify(d, {SeedDisplay}, {}, TRUE)

SeedSpec == SeedInit /\ [][SeedNext]_vars

\* buildPrompt on its own: every list of up to MaxEntries entries with a role
\* of PromptRoles and a content of one of ContentChars lengths, given to each
\* of the two buildPrompt functions of the repository.
PromptRoles == {Payer, Arbiter, 3}
ContentChars == {1, MAX_EVIDENCE_CHARS_PER_ENTRY, MAX_EVIDENCE_CHARS_PER_ENTRY + 1}
PromptEntries == [role : PromptRoles, content : ContentChars]
PromptInputs == UNION {[1..n -> PromptEntries] : n \in 0..MaxEntries}

Idle ==
  /\ evidence = [d \in Disputes |-> <<>>]
  /\ status = [d \in Disputes |-> "None"]
  /\ events = <<>>
  /\ refunded = [d \in Disputes |-> FALSE]
  /\ paymentInfoCache = {}
  /\ evaluatedDisputes = {}
  /\ orderedDisputeKeys = <<>>
  /\ indexedDisputes = <<>>
  /\ frame = [p \in Procs |-> IdleFrame]
  /\ outcome = NoOutcome
  /\ writeFailed = {}
  /\ answers = {}
  /\ replay = NoReplay
  /\ processed = {}

Given(inputs) == \E input \in inputs : applied = [fn |-> "input", input |-> input, result |-> <<>>]

Returns(fn, result) ==
  /\ applied' = [applied EXCEPT !.fn = fn, !.result = result]
  /\ UNCHANGED <<ledger, caches, evaluatedDisputes, frame, outcome, writeFailed, answers, replay, processed, bot>>

PromptInit == Idle /\ bot = IdleBot /\ Given(PromptInputs)

BuildPromptWhole ==
  /\ applied.fn = "input"
  /\ Returns("buildPrompt (prompts.ts)", buildPromptWhole(applied.input))

BuildPromptCapped ==
  /\ applied.fn = "input"
  /\ Returns("buildPrompt (part_007)", buildPromptCapped(applied.input))

PromptNext == BuildPromptWhole \/ BuildPromptCapped

PromptSpec == PromptInit /\ [][PromptNext]_vars

\* Step 5 of evaluateDispute on its own: every display text made of up to
\* MaxCommentary tokens of commentary followed by a well-formed object.
CommentaryTokens == {Word, LBrace, RBrace}
Commentaries == UNION {[1..n -> CommentaryTokens] : n \in 0..MaxCommentary}
Objects == {Obj(d, "r", c) : d \in {"approve", "deny"}, c \in {"0.5", "0.7", "0.9"}}
ParseInputs == [commentary : Commentaries, object : Objects]

ParseInit == Idle /\ bot = IdleBot /\ Given(ParseInputs)

ParseDisplay ==
  /\ applied.fn = "input"
  /\ Returns("ParseDecision", ParseDecision(applied.input.commentary \o applied.input.object))

ParseNext == ParseDisplay

ParseSpec == ParseInit /\ [][ParseNext]_vars

\* fetchWithRetry alone, on every series of outcomes of its fetch calls.
Statuses == {200, 404, 429, 500, 503}
FetchOutcomes == {Response(code) : code \in Statuses} \cup {NetworkError}
RetryInputs == [1..maxRetries + 1 -> FetchOutcomes]

RetryInit == Idle /\ bot = IdleBot /\ Given(RetryInputs)

FetchWithRetry ==
  /\ applied.fn = "input"
  /\ Returns("fetchWithRetry", fetchWithRetry(applied.input))

RetryNext == FetchWithRetry

RetrySpec == RetryInit /\ [][RetryNext]_vars

\* The poller on a ledger with NumQueued pending disputes that both parties
\* have given evidence for, logged in any order.  For a dispute in Failing
\* the ledger read may throw every time it is made and every evaluation
\* throws; the calls made for the others are like any other call.
Queued == 1..NumQueued
Failing == {1}

StarveInit ==
  /\ evidence = [d \in Queued |-> PartiesLedger(2)]
  /\ status = [d \in Queued |-> "Pending"]
  /\ \E log \in [Queued -> Queued] :
       /\ \A i, j \in Queued : log[i] = log[j] => i = j
       /\ events = [i \in Queued |-> log[i]]
  /\ refunded = [d \in Queued |-> FALSE]
  /\ paymentInfoCache = {}
  /\ evaluatedDisputes = {}
  /\ orderedDisputeKeys = <<>>
  /\ indexedDisputes = <<>>
  /\ frame = [p \in Procs |-> IdleFrame]
  /\ outcome = NoOutcome
  /\ writeFailed = {}
  /\ answers = {}
  /\ replay = NoReplay
  /\ applied = NoCall
  /\ processed = {}
  /\ bot = IdleBot

\* The poller's getAllEvidence for a dispute in Failing throws.
FailingRead(p) == frame[p].d \in Failing /\ PollerReadFailed(p)

\* It returns, for a dispute in Failing as for any other.
Read(p) == PollerEvidenceRead(p)

\* evaluateDispute of a dispute in Failing throws.
FailingEvaluation(p) ==
  /\ frame[p].d \in Failing
  /\ EvalGotEvidence(p, Responses, Seeds, {}, FALSE)
  /\ outcome'.st = "error"

HealthyEvaluation(p) == frame[p].d \notin Failing /\ EvalGotEvidence(p, Responses, Seeds, {}, FALSE)

StarveNext ==
  \/ \E p \in Procs : PollerTick(p, 1)
  \/ \E p \in Procs : FailingRead(p)
  \/ \E p \in Procs : Read(p)
  \/ \E p \in Procs : FailingEvaluation(p)
  \/ \E p \in Procs : HealthyEvaluation(p)
  \/ \E p \in Procs : EvalEvidenceSubmitted(p)
  \/ \E p \in Procs : EvalRuled(p)
  \/ \E p \in Procs : EvalRefunded(p)

\* Ticks keep firing, every awaited call ends, and a call made again and
\* again for a dispute outside Failing eventually succeeds.
StarveFairness ==
  /\ WF_vars(\E p \in Ticks : PollerTick(p, 1))
  /\ \A p \in Procs :
       /\ WF_vars(FailingRead(p) \/ Read(p))
       /\ SF_vars(frame[p].d \notin Failing /\ Read(p))
       /\ WF_vars(FailingEvaluation(p))
       /\ WF_vars(HealthyEvaluation(p))
       /\ SF_vars(HealthyEvaluation(p) /\ frame'[p].pc = "submitEvidence")
       /\ WF_vars(EvalEvidenceSubmitted(p))
       /\ SF_vars(EvalEvidenceSubmitted(p) /\ frame'[p].pc \in {"approve", "deny"})
       /\ WF_vars(EvalRuled(p))
       /\ SF_vars(EvalRuled(p) /\ outcome'.st # "error")
       /\ WF_vars(EvalRefunded(p))

StarveSpec == StarveInit /\ [][StarveNext]_vars /\ StarveFairness

\* Indexing and the poller on a contract that has logged NumLogged refund
\* requests, some of them for another operator, each with evidence of both
\* parties.  A run of indexAndCachePaymentInfo reads the events of the last
\* MAX_BLOCK_RANGE blocks: the log without its first `from` events.
Logged == 1..NumLogged
OPERATOR_ADDRESS == "0xAb"

\* pi.operator of the request with key d, as the event gives it.
OperatorOf(d) ==
  CASE d = 1 -> "0xAB"
    [] d = 3 -> "0xab"
    [] OTHER -> "0xCD"

toLowerCase(a) == IF a \in {"0xAB", "0xAb", "0xaB", "0xab"} THEN "0xab" ELSE "0xcd"

OnOperator_Unfiltered(d) == TRUE

\* index.ts:174
OnOperator(d) == toLowerCase(OperatorOf(d)) = toLowerCase(OPERATOR_ADDRESS)

IndexError == [NoOutcome EXCEPT !.st = "index error"]

\* indexAndCachePaymentInfo rebuilding the Map from the window, as it does
\* orderedDisputeKeys.
IndexWindow_Rebuild(from, ok) ==
  LET keys == SelectSeq(SubSeq(events, from + 1, Len(events)), OnOperator)
  IN /\ indexedDisputes' = IF ok THEN keys ELSE indexedDisputes
     /\ paymentInfoCache' = IF ok THEN paymentInfoCache \cup Range(keys) ELSE paymentInfoCache
     /\ orderedDisputeKeys' = IF ok THEN Reverse(keys) ELSE orderedDisputeKeys
     /\ outcome' = IF ok THEN NoOutcome ELSE IndexError

\* indexAndCachePaymentInfo (index.ts:152-232) on the window that starts
\* after the first `from` events; when a read fails it warns.
IndexWindow(from, ok) ==
  LET keys == SelectSeq(SubSeq(events, from + 1, Len(events)), OnOperator)
  IN /\ indexedDisputes' = IF ok THEN indexedDisputes \o NewKeys(indexedDisputes, keys) ELSE indexedDisputes
     /\ paymentInfoCache' = IF ok THEN paymentInfoCache \cup Range(keys) ELSE paymentInfoCache
     /\ orderedDisputeKeys' = IF ok THEN Reverse(keys) ELSE orderedDisputeKeys
     /\ outcome' = IF ok THEN NoOutcome ELSE IndexError

\* The 15 s index timer, or the indexing at startup (index.ts:595-613).
IndexRun(from, ok) ==
  /\ IndexWindow(from, ok)
  /\ NoAnswer
  /\ UNCHANGED <<ledger, evaluatedDisputes, frame, writeFailed, answers>>

\* A firing of the poller (index.ts:626-632), one at a time.
WindowTick(p, from, ok) ==
  /\ p \in Ticks
  /\ \A q \in Ticks : frame[q].pc = "idle"
  /\ p[2] = 1
  /\ IndexWindow(from, ok)
  /\ frame' = [frame EXCEPT ![p] = Advance(evaluatedDisputes, indexedDisputes', 0)]
  /\ NoAnswer
  /\ UNCHANGED <<ledger, evaluatedDisputes, writeFailed, answers>>

IndexInit ==
  /\ evidence = [d \in Logged |-> PartiesLedger(2)]
  /\ status = [d \in Logged |-> "Pending"]
  /\ events = [i \in Logged |-> i]
  /\ refunded = [d \in Logged |-> FALSE]
  /\ paymentInfoCache = {}
  /\ evaluatedDisputes = {}
  /\ orderedDisputeKeys = <<>>
  /\ indexedDisputes = <<>>
  /\ frame = [p \in Procs |-> IdleFrame]
  /\ outcome = NoOutcome
  /\ writeFailed = {}
  /\ answers = {}
  /\ replay = NoReplay
  /\ applied = NoCall
  /\ processed = {}
  /\ bot = IdleBot

IndexNext ==
  \/ \E from \in 0..Len(events), ok \in BOOLEAN : IndexRun(from, ok)
  \/ \E p \in Procs, from \in 0..Len(events), ok \in BOOLEAN : WindowTick(p, from, ok)
  \/ \E p \in Procs : PollerReadFailed(p)
  \/ \E p \in Procs : PollerEvidenceRead(p)
  \/ \E p \in Procs : EvalGotEvidence(p, {SeedDisplay}, Seeds, {}, FALSE)
  \/ \E p \in Procs : EvalEvidenceSubmitted(p)
  \/ \E p \in Procs : EvalRuled(p)
  \/ \E p \in Procs : EvalRefunded(p)

IndexSpec == IndexInit /\ [][IndexNext]_vars

\* The Dashboard loading a page of the arbiter's list.
DashInputs == [listed : 0..MaxListed, newOffset : {0, PAGE_SIZE, 2 * PAGE_SIZE}, stale : 0..MaxStale]

DashInit == Idle /\ bot = IdleBot /\ Given(DashInputs)

LoadDisputes ==
  /\ applied.fn = "input"
  /\ LET dashboard == loadDisputes(applied.input.listed, applied.input.newOffset, applied.input.stale)
     IN Returns("loadDisputes", [dashboard |-> dashboard, pagination |-> Pagination(dashboard)])

DashNext == LoadDisputes

DashSpec == DashInit /\ [][DashNext]_vars

\* The merchant bot and the parties, the bot starting with the receiver's key
\* or with another one.
BotInit ==
  /\ evidence = [d \in Queued |-> <<>>]
  /\ status = [d \in Queued |-> "None"]
  /\ events = <<>>
  /\ refunded = [d \in Queued |-> FALSE]
  /\ paymentInfoCache = {}
  /\ evaluatedDisputes = {}
  /\ orderedDisputeKeys = <<>>
  /\ indexedDisputes = <<>>
  /\ frame = [p \in Procs |-> IdleFrame]
  /\ outcome = NoOutcome
  /\ writeFailed = {}
  /\ answers = {}
  /\ replay = NoReplay
  /\ applied = NoCall
  /\ processed = {}
  /\ \E wallet \in {"receiver", "other"} : bot = [IdleBot EXCEPT !.wallet = wallet]

BotNext ==
  \/ \E d \in Queued : RefundRequested(d)
  \/ \E d \in Queued, role \in {Payer, Receiver}, id \in PartyCids : PartySubmitEvidence(d, role, id)
  \/ KeyChanged
  \/ \E s \in Scans : BotScan(s)
  \/ \E s \in Scans : BotGotEvidence(s)
  \/ \E s \in Scans : BotSubmitted(s)
  \/ \E s \in Scans : BotConfirmed(s)

BotSpec == BotInit /\ [][BotNext]_vars

\* The interval keeps firing and every awaited call ends.
BotFairness ==
  /\ WF_vars(\E s \in Scans : BotScan(s))
  /\ \A s \in Scans :
       /\ WF_vars(BotGotEvidence(s))
       /\ WF_vars(BotSubmitted(s))
       /\ WF_vars(BotConfirmed(s))

BotLiveSpec == BotSpec /\ BotFairness

\* ------------------------------------------------------------------ claims
\* The ruling an evaluation in frame f has parsed.
RulingOf(f) == ParseDecision(f.display)

\* The evidence list evaluateDispute read for frame f held no Arbiter entry.
\* (the prompt's first and last elements are its heading and its closing line).
SawNoArbiterEntry(f) == \A i \in 2..(Len(f.prompt) - 1) : f.prompt[i].role # ROLE_LABELS(Arbiter)

\* Frame f is past its submitEvidence call.
RulingPcs == {"approve", "deny", "refund"}

\* The Arbiter entry an evaluation in frame f writes is on the ledger.
OwnEntryWritten(f) ==
  \E i \in 1..Len(evidence[f.d]) :
    /\ evidence[f.d][i].role = Arbiter
    /\ evidence[f.d][i].cid = EvidenceCid(f.prompt, f.seed, f.display, CONFIDENCE_THRESHOLD)

\* C1: two evaluations of one dispute in progress together, neither of which
\* read an Arbiter entry, leave at most one Arbiter entry on the ledger.
C1_AtMostOneArbiterEntry ==
  \A p, q \in Procs :
    (/\ p # q
     /\ frame[p].d = frame[q].d
     /\ frame[p].pc \in RulingPcs \cup {"submitEvidence"}
     /\ frame[q].pc \in RulingPcs \cup {"submitEvidence"}
     /\ SawNoArbiterEntry(frame[p])
     /\ SawNoArbiterEntry(frame[q]))
    => RoleCount(evidence[frame[p].d], Arbiter) <= 1

\* C2: no caller starts evaluateDispute for a dispute that has an Arbiter
\* entry on the ledger.
C2_NoEvaluationAfterArbiterEntry ==
  [][\A p \in Procs :
       (~Evaluating(p) /\ Evaluating(p)') => ~HasRole(evidence[frame'[p].d], Arbiter)]_vars

Thresholds == {5, 7, 9}

\* C3: an evaluation sends approveRefundRequest exactly when the parsed
\* decision is "approve" with a confidence of at least the threshold, and
\* denyRefundRequest otherwise; the outcome it records is the same function
\* of the ruling at every threshold.
C3_ApproveIffAtThreshold ==
  \A p \in Procs :
    LET r == RulingOf(frame[p])
    IN /\ frame[p].pc \in {"approve", "refund"} => (r.decision = "approve" /\ r.confidence >= CONFIDENCE_THRESHOLD)
       /\ frame[p].pc = "deny" => ~(r.decision = "approve" /\ r.confidence >= CONFIDENCE_THRESHOLD)
       /\ frame[p].pc \in RulingPcs =>
            \A t \in Thresholds :
              Outcome(r, t) = (IF r.decision = "approve" /\ r.confidence >= t THEN "approve" ELSE "deny")

\* An "approve" below the threshold is being enacted as a denial, and an
\* "approve" at exactly the threshold as an approval.
C3_Witness ==
  /\ \E p \in Procs :
       /\ frame[p].pc = "deny"
       /\ RulingOf(frame[p]).decision = "approve"
       /\ RulingOf(frame[p]).confidence < CONFIDENCE_THRESHOLD
  /\ \E p \in Procs :
       /\ frame[p].pc = "approve"
       /\ RulingOf(frame[p]).confidence = CONFIDENCE_THRESHOLD


\* C4: a ruling transaction is sent only after the evaluation's own Arbiter
\* entry, commitment included, is on the ledger; so a ruling that lands or
\* that fails leaves the evidence of the decision behind.
C4_RulingOnlyAfterEvidence ==
  /\ \A p \in Procs : frame[p].pc \in RulingPcs => OwnEntryWritten(frame[p])
  /\ \A d \in Disputes : status[d] \in {"Approved", "Denied"} => HasRole(evidence[d], Arbiter)
  /\ (outcome.st = "error" /\ outcome.why \in {"err", "revert"}) => HasRole(evidence[outcome.d], Arbiter)

\* A ruling transaction has just failed in transit: the request is still
\* pending and the evidence of the decision is on the ledger.
C4_Witness ==
  /\ outcome.st = "error"
  /\ outcome.why = "err"
  /\ status[outcome.d] = "Pending"
  /\ HasRole(evidence[outcome.d], Arbiter)

\* C5: once an indexed dispute has evidence of the payer and of the receiver,
\* eventually the ledger has an Arbiter entry for it and its request is no
\* longer pending.
C5_EventuallyRuled ==
  \A d \in Disputes :
    (d \in Range(indexedDisputes) /\ HasRole(evidence[d], Payer) /\ HasRole(evidence[d], Receiver))
    ~> (HasRole(evidence[d], Arbiter) /\ status[d] # "Pending")

\* C6: a dispute whose evidence or ruling write failed and which is still
\* pending is, once no evaluation of it is in progress, not marked evaluated,
\* so that the poller takes it up again.
C6_FailedWriteStaysRetryable ==
  \A d \in writeFailed :
    (status[d] = "Pending" /\ \A p \in Procs : ~(Evaluating(p) /\ frame[p].d = d))
    => d \notin evaluatedDisputes

\* C7: the poller adds the key when it starts evaluateDispute, and when the
\* call ends the key is in evaluatedDisputes exactly if it returned.
C7_KeyRemainsIffReturned ==
  [][\A p \in Ticks :
       /\ (~Evaluating(p) /\ Evaluating(p)') => frame'[p].d \in evaluatedDisputes'
       /\ (Evaluating(p) /\ ~Evaluating(p)') =>
            (frame[p].d \in evaluatedDisputes' <=> outcome'.st = "result")]_vars

\* C8: on the evidence list it has just read, the poller starts
\* evaluateDispute exactly if the list has a Payer and a Receiver entry and no
\* Arbiter entry; with an Arbiter entry it marks the dispute evaluated; with a
\* party missing it leaves the dispute as it was.
C8_PollerDecidesOnTheList ==
  [][\A p \in Ticks :
       (frame[p].pc = "poll" /\ frame'[p] # frame[p] /\ outcome'.st # "poll error") =>
         LET d == frame[p].d
             hasParties == HasRole(evidence[d], Payer) /\ HasRole(evidence[d], Receiver)
             hasArbiter == HasRole(evidence[d], Arbiter)
         IN /\ Evaluating(p)' <=> (hasParties /\ ~hasArbiter)
            /\ Evaluating(p)' => frame'[p].d = d
            /\ hasArbiter => d \in evaluatedDisputes'
            /\ (~hasArbiter /\ ~hasParties) => (evaluatedDisputes' = evaluatedDisputes /\ ledger' = ledger)]_vars

\* A poller firing has marked a dispute that has evidence of both parties and
\* is evaluating it.
C8_Witness ==
  \E p \in Ticks :
    /\ frame[p].pc = "getAllEvidence"
    /\ frame[p].d \in evaluatedDisputes
    /\ HasRole(evidence[frame[p].d], Payer)
    /\ HasRole(evidence[frame[p].d], Receiver)

\* The parsed value is a JSON object with decision, reasoning and confidence.
WellFormedRuling(r) ==
  /\ r.ok
  /\ r.kind = "object"
  /\ r.decision # "undefined"
  /\ r.reasoning # "undefined"
  /\ r.confidence # Undef

\* C9: an evaluation gets to its on-chain writes only with a model output
\* that yields a JSON object with decision, reasoning and confidence.
C9_NoWriteWithoutRuling ==
  \A p \in Procs :
    frame[p].pc \in RulingPcs \cup {"submitEvidence"} => WellFormedRuling(RulingOf(frame[p]))

\* C10: a ruling transaction that reverts because the request is no longer
\* pending ends the evaluation as a success, the dispute marked evaluated.
C10_ConflictRevertIsSuccess ==
  outcome.why = "revert" => (outcome.st = "result" /\ outcome.d \in evaluatedDisputes)

\* C11: when executeRefundInEscrow ends, whether it threw or not,
\* evaluateDispute returns a result for the approved request; after a throw
\* the result carries refundError and no refundTx, and the caller counts the
\* dispute as evaluated: the poller does not remove the key, the request
\* handler adds it.
C11_RefundFailureIsNotFatal ==
  [][\A p \in Procs :
       (frame[p].pc = "refund" /\ frame'[p].pc # "refund") =>
         /\ outcome'.st = "result"
         /\ outcome'.d = frame[p].d
         /\ status'[frame[p].d] = "Approved"
         /\ outcome'.refund = (IF refunded' # refunded THEN "refundTx" ELSE "refundError")
         /\ frame[p].d \in evaluatedDisputes => frame[p].d \in evaluatedDisputes'
         /\ p \in Manuals => frame[p].d \in evaluatedDisputes']_vars

\* An evaluation has just returned with refundError: the request is approved,
\* the funds have not moved and the dispute is marked evaluated.
C11_Witness ==
  /\ outcome.st = "result"
  /\ outcome.refund = "refundError"
  /\ status[outcome.d] = "Approved"
  /\ ~refunded[outcome.d]
  /\ outcome.d \in evaluatedDisputes

\* C12: an evaluation calls executeRefundInEscrow exactly when its enacted
\* outcome is approve and its own approveRefundRequest has just succeeded:
\* the call is never reached from a deny ruling nor from an approve that
\* failed, and a successful approve always reaches it.
C12_RefundIffApproveSucceeded ==
  [][\A p \in Procs :
       LET d == frame[p].d
           approved == /\ frame[p].pc = "approve"
                       /\ frame'[p] # frame[p]
                       /\ status[d] = "Pending"
                       /\ status'[d] = "Approved"
       IN /\ (frame[p].pc # "refund" /\ frame'[p].pc = "refund") <=> approved
          /\ frame'[p].pc = "refund" =>
               /\ MeetsThreshold(ParseDecision(frame'[p].display), CONFIDENCE_THRESHOLD)
               /\ status'[frame'[p].d] = "Approved"]_vars

\* An evaluation whose approve ruling went through is at its refund call.
C12_Witness ==
  \E p \in Procs :
    /\ frame[p].pc = "refund"
    /\ status[frame[p].d] = "Approved"
    /\ Outcome(ParseDecision(frame[p].display), CONFIDENCE_THRESHOLD) = "approve"

\* C13: when getAllEvidence returns an empty list, evaluateDispute fails
\* with "No evidence submitted for this dispute"; the failing step asks the
\* model nothing and writes nothing to the ledger.
C13_NoEvidenceFailsFirst ==
  [][\A p \in Procs :
       ( /\ frame[p].pc = "getAllEvidence"
         /\ frame'[p] # frame[p]
         /\ evidence[frame[p].d] = <<>>
         /\ outcome'.why # "rpc" ) =>
           /\ outcome'.st = "error"
           /\ outcome'.why = "No evidence submitted for this dispute"
           /\ outcome'.d = frame[p].d
           /\ frame'[p].pc \notin EvalPcs
           /\ answers' = answers
           /\ ledger' = ledger]_vars

\* An evaluation of a dispute without evidence has just failed, and the
\* model has never been asked.
C13_Witness ==
  /\ outcome.st = "error"
  /\ outcome.why = "No evidence submitted for this dispute"
  /\ evidence[outcome.d] = <<>>
  /\ answers = {}

\* The ledger of dispute d is the evidence list one evaluation read followed
\* by the Arbiter entry that evaluation wrote.
EvaluatedThenRecorded(d) ==
  LET ev == evidence[d]
  IN /\ ev # <<>>
     /\ ev[Len(ev)].role = Arbiter
     /\ ev[Len(ev)].cid.commitment.promptHash = keccak256(buildPrompt(SubSeq(ev, 1, Len(ev) - 1), {}))

\* C14: a replay run on the ledger that holds the evaluated evidence list
\* and the resulting Arbiter entry, against a deterministic model, produces
\* the commitmentHash recorded in that Arbiter entry.
C14_ReplayReproducesCommitment ==
  (replay.st = "replayed" /\ EvaluatedThenRecorded(replay.d)) =>
    LET ev == evidence[replay.d]
    IN replay.commitment.commitmentHash = ev[Len(ev)].cid.commitment.commitmentHash

\* C15: the prompt evaluateDispute passes to the model is built from the
\* first evidence entry of each role only, so that a later entry of a role
\* already present leaves the prompt unchanged.
C15_PromptUsesFirstEntryPerRole ==
  \A p \in Procs :
    frame[p].pc \in {"submitEvidence", "approve", "deny", "refund"} =>
      frame[p].prompt = buildPrompt(firstEvidencePerRole(frame[p].evidence), frame[p].failed)

\* The commitments of the runs of buildPrompt, model call and
\* createCommitment that the state shows: those written in Arbiter entries,
\* those of evaluations between their model call and their return, and the
\* replayCommitment of the replay just answered.
Commitments ==
  UNION {{evidence[d][i].cid.commitment :
            i \in {j \in 1..Len(evidence[d]) : evidence[d][j].role = Arbiter}} : d \in Disputes}
  \cup {createCommitment(frame[p].prompt, frame[p].seed, frame[p].display) :
          p \in {q \in Procs : frame[q].pc \in {"submitEvidence", "approve", "deny", "refund"}}}
  \cup (IF replay.st = "replayed" THEN {replay.commitment} ELSE {})

\* C16: against a deterministic model, two runs of buildPrompt, the model
\* call and createCommitment on the same evidence list, resolved contents
\* and seed (that is, on the same prompt and seed) give the same
\* promptHash, responseHash and commitmentHash.
C16_SameInputsSameCommitment ==
  \A a, b \in Commitments :
    (a.promptHash = b.promptHash /\ a.seed = b.seed) =>
      /\ a.responseHash = b.responseHash
      /\ a.commitmentHash = b.commitmentHash

\* A replay has run on the prompt and seed of an evaluation whose Arbiter
\* entry is on the ledger.
C16_Witness ==
  /\ replay.st = "replayed"
  /\ \E i \in 1..Len(evidence[replay.d]) :
       /\ evidence[replay.d][i].role = Arbiter
       /\ evidence[replay.d][i].cid.commitment.promptHash = keccak256(replay.prompt)
       /\ evidence[replay.d][i].cid.commitment.seed = replay.commitment.seed

\* C17: the Arbiter entry an evaluation writes records, as commitment.seed,
\* the seed that evaluation passed to the model and, as promptHash, the hash
\* of the user prompt it passed to the model.
C17_CommitmentRecordsModelInputs ==
  [][\A p \in Procs :
       (frame[p].pc = "submitEvidence" /\ frame'[p].pc \in {"approve", "deny"}) =>
         LET ev == evidence'[frame[p].d]
             commitment == ev[Len(ev)].cid.commitment
         IN /\ ev[Len(ev)].role = Arbiter
            /\ \E a \in answers :
                 /\ a.prompt = frame[p].prompt
                 /\ a.seed = frame[p].seed
                 /\ commitment.seed = a.seed
                 /\ commitment.promptHash = keccak256(a.prompt)
                 /\ commitment.responseHash = keccak256(a.display)]_vars

\* An Arbiter entry on the ledger records a drawn seed other than the
\* configured one, with which the model was asked.
C17_Witness ==
  \E d \in Disputes : \E i \in 1..Len(evidence[d]) :
    /\ evidence[d][i].role = Arbiter
    /\ evidence[d][i].cid.commitment.seed # EIGENAI_SEED
    /\ \E a \in answers :
         /\ a.seed = evidence[d][i].cid.commitment.seed
         /\ keccak256(a.prompt) = evidence[d][i].cid.commitment.promptHash

\* C18: an evaluation that got past its model call despite failed fetches
\* built a prompt with one section per entry, in which exactly the entries
\* whose fetch threw carry "(failed to retrieve)" and every other entry
\* carries its content.
C18_OnlyFailedEntriesGetSentinel ==
  \A p \in Procs :
    frame[p].pc \in {"submitEvidence", "approve", "deny", "refund"} =>
      /\ Len(frame[p].prompt) = Len(frame[p].evidence) + 2
      /\ \A i \in 1..Len(frame[p].evidence) :
           /\ frame[p].prompt[i + 1].cid = frame[p].evidence[i].cid
           /\ frame[p].prompt[i + 1].content.kind = "(failed to retrieve)" <=> i \in frame[p].lost

\* C19: when a manual evaluation and a scheduler evaluation of one dispute
\* have both read the ledger before any Arbiter entry and have both written
\* theirs, the two entries record the same enacted decision and the same
\* commitment, and the two evaluations send rulings of the same kind.
C19_RacingWritersAgree ==
  \A p \in Manuals, q \in Ticks :
    ( /\ frame[p].pc \in RulingPcs /\ frame[q].pc \in RulingPcs
      /\ frame[p].d = frame[q].d
      /\ frame[p].evidence = frame[q].evidence
      /\ SawNoArbiterEntry(frame[p])
      /\ OwnEntryWritten(frame[p]) /\ OwnEntryWritten(frame[q]) ) =>
        LET mine == EvidenceCid(frame[p].prompt, frame[p].seed, frame[p].display, CONFIDENCE_THRESHOLD)
            theirs == EvidenceCid(frame[q].prompt, frame[q].seed, frame[q].display, CONFIDENCE_THRESHOLD)
        IN /\ mine.decision = theirs.decision
           /\ mine.commitment = theirs.commitment

\* C20: every replay that calls the model signs its grant with an account
\* other than the arbiter's.
C20_ReplayCredentialIsIndependent ==
  replay.st = "replayed" => replay.credential # ArbiterAccount

\* C21: only the scheduler loop writes evaluatedDisputes: a step that adds or
\* removes a key is never a step of a POST /api/evaluate request.
C21_EvaluatedSetIsSchedulerPrivate ==
  [][evaluatedDisputes' # evaluatedDisputes => \A p \in Manuals : frame'[p] = frame[p]]_vars

\* C22: no two firings of the scheduler are inside evaluateDispute for the
\* same dispute at the same time.
C22_OneSchedulerEvaluationPerDispute ==
  \A p, q \in Ticks :
    (p # q /\ Evaluating(p) /\ Evaluating(q)) => frame[p].d # frame[q].d

\* The seed the ledger records for dispute d: that of its first Arbiter
\* entry carrying one, and the default 42 when no Arbiter entry carries one.
RecordedSeed(d) == ReplaySeed(SelectSeq(evidence[d], LAMBDA e : e.role = Arbiter), 42)

\* C23: a replay asks the model with the seed recorded in the first Arbiter
\* entry of the ledger that carries one, and with 42 only when no Arbiter
\* entry on the ledger carries a seed.
C23_ReplayUsesRecordedSeed ==
  replay.st = "replayed" => replay.commitment.seed = RecordedSeed(replay.d)

\* C24: in the prompt buildPrompt returns, every entry's content contributes
\* at most MAX_EVIDENCE_CHARS_PER_ENTRY characters, followed by the
\* truncation marker exactly when it was longer; the prompt is never longer
\* than MAX_PROMPT_CHARS plus the prompt-truncation marker, which is
\* appended exactly when the joined text was longer than MAX_PROMPT_CHARS.
C24_PromptWithinCaps ==
  applied.fn \in {"buildPrompt (prompts.ts)", "buildPrompt (part_007)"} =>
    /\ \A i \in 1..Len(applied.input) :
         /\ applied.result.sections[i].kept <= MAX_EVIDENCE_CHARS_PER_ENTRY
         /\ applied.result.sections[i].marker <=> applied.input[i].content > MAX_EVIDENCE_CHARS_PER_ENTRY
    /\ applied.result.chars <= MAX_PROMPT_CHARS + PromptMarkerChars
    /\ applied.result.marker <=> applied.result.joined > MAX_PROMPT_CHARS

\* The entries whose section title lies in the text buildPrompt returned.
Shown(result) ==
  {i \in 1..Len(result.sections) :
     result.sections[i].start + result.sections[i].title
       <= result.chars - (IF result.marker THEN PromptMarkerChars ELSE 0)}

\* The label the prompt gives to a role.
LabelOfRole(role) ==
  CASE role = 0 -> "Payer"
    [] role = 1 -> "Receiver"
    [] role = 2 -> "Arbiter"
    [] role = 3 -> "Role(3)"
    [] role = 4 -> "Role(4)"

\* buildPrompt pushes one section per entry, in input order, labelled with
\* the role's name or with Role(<number>).
OneSectionPerEntry ==
  /\ Len(applied.result.sections) = Len(applied.input)
  /\ \A i \in 1..Len(applied.input) :
       /\ applied.result.sections[i].label = LabelOfRole(applied.input[i].role)
       /\ \A j \in 1..(i - 1) : applied.result.sections[j].start < applied.result.sections[i].start

\* C25 as stated: for every input, of every role value, every entry has its
\* labelled section in the prompt buildPrompt returns.
C25_NoEntryAbsent ==
  applied.fn \in {"buildPrompt (prompts.ts)", "buildPrompt (part_007)"} =>
    /\ OneSectionPerEntry
    /\ Shown(applied.result) = 1..Len(applied.input)

\* C25, amended: buildPrompt pushes one labelled section per entry, in input
\* order, for every role value (Role(<number>) for a role without a name);
\* the returned prompt holds the sections of a prefix of the entries, and
\* of all of them unless it ends with the prompt-truncation marker.
C25_NoEntryAbsentUnlessMarked ==
  applied.fn \in {"buildPrompt (prompts.ts)", "buildPrompt (part_007)"} =>
    /\ OneSectionPerEntry
    /\ \E n \in 0..Len(applied.input) : Shown(applied.result) = 1..n
    /\ applied.result.marker \/ Shown(applied.result) = 1..Len(applied.input)

\* buildPrompt of part_007 has returned a prompt that holds, in order, the
\* sections of a Payer entry, of an entry of role 3 labelled Role(3) and of
\* an Arbiter entry.
C25_Witness ==
  /\ applied.fn = "buildPrompt (part_007)"
  /\ Len(applied.input) = 3
  /\ applied.input[1].role = Payer /\ applied.input[2].role = 3 /\ applied.input[3].role = Arbiter
  /\ applied.result.sections[2].label = "Role(3)"
  /\ Shown(applied.result) = {1, 2, 3}

\* C26: when the display text is commentary followed by a well-formed object
\* with decision, reasoning and confidence, step 5 yields the decision,
\* reasoning and confidence that object states, as if the object had been
\* the whole text.
C26_FallbackExtractsObject ==
  applied.fn = "ParseDecision" => applied.result = JSONParse(applied.input.object)

\* C27: a dispute in the logs whose receiver's key the bot holds and which
\* has no merchant evidence on the ledger eventually has merchant evidence.
C27_MerchantEvidenceEventually ==
  \A d \in Disputes :
    (status[d] # "None" /\ bot.wallet = "receiver" /\ ~HasMerchantEvidence(d))
      ~> HasMerchantEvidence(d)

\* The first call of fetch, if any, that ends fetchWithRetry: one that
\* rejects or one whose status is neither 429 nor 500 and above; else the last.
LastCall(fetches) ==
  LET ending == {i \in 1..maxRetries :
                   \/ fetches[i].kind = "error"
                   \/ ~(fetches[i].status = 429 \/ fetches[i].status >= 500)}
  IN IF ending = {} THEN maxRetries ELSE CHOOSE i \in ending : \A j \in ending : i <= j

\* C28 as stated: fetchWithRetry makes at most maxRetries calls of fetch and
\* always ends with a response, the first whose status is neither 429 nor
\* 500 and above, or the last attempt's.
C28_AlwaysAResponse ==
  applied.fn = "fetchWithRetry" =>
    /\ applied.result.calls <= maxRetries
    /\ applied.result.returned.kind = "response"
    /\ applied.result.calls = LastCall(applied.input)
    /\ applied.result.returned = applied.input[LastCall(applied.input)]

\* C28: fetchWithRetry makes at most maxRetries calls of fetch, one after
\* each response with status 429 or 500 and above; it ends with what its
\* last call gave, which is a response unless that call rejected.
C28_RetriesOnStatusOnly ==
  applied.fn = "fetchWithRetry" =>
    /\ applied.result.calls <= maxRetries
    /\ applied.result.calls = LastCall(applied.input)
    /\ applied.result.returned = applied.input[applied.result.calls]
    /\ applied.result.returned.kind = "error" <=> applied.input[LastCall(applied.input)].kind = "error"
    /\ \A i \in 1..applied.result.calls - 1 :
         /\ applied.input[i].kind = "response"
         /\ applied.input[i].status \in {429, 500, 503}
    /\ (\A i \in 1..maxRetries : applied.input[i].kind = "response")
         => applied.result.returned.kind = "response"

C28_Witness ==
  /\ applied.fn = "fetchWithRetry"
  /\ applied.result.calls = maxRetries
  /\ applied.result.returned = Response(503)
  /\ applied.input[1] = Response(429)
  /\ applied.result.delays = <<1000, 2000>>

\* C29: a dispute whose key is in evaluatedDisputes while no firing of the
\* scheduler is evaluating it has an Arbiter entry on the ledger.
C29_DoneHasArbiterEntry ==
  \A d \in evaluatedDisputes :
    (\A p \in Ticks : ~(Evaluating(p) /\ frame[p].d = d)) => HasRole(evidence[d], Arbiter)

C29_Witness ==
  \E d \in evaluatedDisputes :
    /\ \A p \in Procs : frame[p].pc = "idle"
    /\ HasRole(evidence[d], Arbiter)
    /\ outcome.st = "result"
    /\ outcome.d = d

\* C30: when an evaluation's submitEvidence has landed and it sends its
\* ruling, the Arbiter entry it has just written says "approve" exactly when
\* the call is approveRefundRequest and "deny" exactly when it is
\* denyRefundRequest; an evaluation awaiting one of the two calls never makes
\* the other.
C30_EntryMatchesRuling ==
  [][\A p \in Procs :
       /\ (frame[p].pc = "submitEvidence" /\ frame'[p].pc \in {"approve", "deny"}) =>
            LET ev == evidence'[frame[p].d]
            IN /\ Len(ev) = Len(evidence[frame[p].d]) + 1
               /\ ev[Len(ev)].role = Arbiter
               /\ ev[Len(ev)].cid.decision = frame'[p].pc
       /\ frame[p].pc \in {"approve", "deny"} =>
            frame'[p].pc \in {frame[p].pc, "refund", "idle", "poll"}]_vars

C30_Witness ==
  \E p \in Procs :
    /\ frame[p].pc = "deny"
    /\ ParseDecision(frame[p].display).decision = "approve"
    /\ LET ev == evidence[frame[p].d]
       IN ev # <<>> /\ ev[Len(ev)].role = Arbiter /\ ev[Len(ev)].cid.decision = "deny"

\* C31: while the reads and evaluations of one dispute keep failing, every
\* other indexed dispute with evidence of both parties and no Arbiter entry
\* is eventually evaluated, wherever it stands in indexedDisputes.
C31_OthersNotStarved ==
  \A d \in Queued \ Failing :
    (d \in Range(indexedDisputes) /\ HasRole(evidence[d], Payer) /\ HasRole(evidence[d], Receiver)
       /\ ~HasRole(evidence[d], Arbiter))
      ~> HasRole(evidence[d], Arbiter)

\* C32: a replay by either endpoint uses the party evidence and the seed the
\* other endpoint selects from the same ledger: the prompt of a replay is the
\* prompt of the entries that are not the Arbiter's and also the prompt of
\* the earliest non-Arbiter entry per role, and its seed is the one found in
\* all Arbiter entries and also the one found in the earliest Arbiter entry.
C32_VerifiersAgree ==
  replay.st = "replayed" =>
    LET allEvidence == evidence[replay.d]
        deduped == firstEvidencePerRole(getEvidenceBatch(allEvidence))
    IN /\ replay.prompt = buildPrompt(SelectSeq(allEvidence, LAMBDA e : e.role # Arbiter), {})
       /\ replay.prompt = buildPrompt(SelectSeq(deduped, LAMBDA e : e.role # Arbiter), {})
       /\ replay.commitment.seed = ReplaySeed(SelectSeq(allEvidence, LAMBDA e : e.role = Arbiter), EIGENAI_SEED)
       /\ replay.commitment.seed = ReplaySeed(SelectSeq(deduped, LAMBDA e : e.role = Arbiter), DEFAULT_SEED)

\* The entries of dispute d that the bot has submitted.
BotEntries(d) == {i \in 1..Len(evidence[d]) : evidence[d][i].cid = IpfsCid("QmMerchant")}

\* C33 as stated: the bot calls submitEvidence at most once per key, and its
\* submission never lands on a ledger that already holds evidence from the
\* receiver.
C33_NeverSubmitsOverReceiverEvidence ==
  [][\A s \in Scans :
       (bot.scan[s].pc = "submitEvidence" /\ bot'.scan[s].pc = "waitForTransactionReceipt")
         => ~HasMerchantEvidence(bot.scan[s].d)]_vars

\* C33: handleDispute takes up a key only once, with the receiver's wallet,
\* also when scans overlap; it calls submitEvidence only when its own read of
\* the ledger has shown no evidence from the receiver, and the ledger never
\* holds two entries submitted by the bot for one dispute.
C33_SubmitsOncePerKey ==
  [][/\ processed \subseteq processed'
     /\ \A d \in Queued : Cardinality(BotEntries(d)') <= 1
     /\ \A s, t \in Scans :
          (s # t /\ bot'.scan[s].pc # "idle" /\ bot'.scan[t].pc # "idle") => bot'.scan[s].d # bot'.scan[t].d
     /\ \A s \in Scans :
          /\ (bot'.scan[s].pc = "getAllEvidence" /\ bot'.scan[s] # bot.scan[s]) =>
               /\ bot'.scan[s].d \notin processed
               /\ bot'.scan[s].d \in processed'
               /\ bot.wallet = "receiver"
          /\ (bot.scan[s].pc = "getAllEvidence" /\ bot'.scan[s].pc = "submitEvidence") =>
               /\ bot'.scan[s].d = bot.scan[s].d
               /\ ~HasMerchantEvidence(bot.scan[s].d)
               /\ bot.wallet = "receiver"
          /\ bot'.scan[s].pc = "submitEvidence" =>
               (bot.scan[s].pc \in {"getAllEvidence", "submitEvidence"} /\ bot'.scan[s].d = bot.scan[s].d)]_vars

C33_Witness ==
  /\ \E s, t \in Scans : s # t /\ bot.scan[s].pc = "waitForTransactionReceipt" /\ bot.scan[t].pc = "submitEvidence"
  /\ \E d \in Queued : Cardinality(BotEntries(d)) = 1 /\ d \in processed

IsPrefix(a, b) == Len(a) <= Len(b) /\ SubSeq(b, 1, Len(a)) = a

\* C34: indexedDisputes only grows, keeping the keys it has and their order,
\* also when a key's event has left the window and when a run fails; a run
\* that fails leaves orderedDisputeKeys as it was.
C34_IndexOnlyGrows ==
  [][/\ IsPrefix(indexedDisputes, indexedDisputes')
     /\ outcome'.st = "index error" =>
          (orderedDisputeKeys' = orderedDisputeKeys /\ indexedDisputes' = indexedDisputes)]_vars

C34_Witness ==
  /\ outcome.st = "index error"
  /\ orderedDisputeKeys # <<>>
  /\ \E d \in Range(indexedDisputes) : d \notin Range(orderedDisputeKeys)

\* C35: every key that indexing has put in indexedDisputes, paymentInfoCache
\* or orderedDisputeKeys, and every dispute a firing of the poller has taken
\* up, is of a request whose operator is OPERATOR_ADDRESS up to case.
C35_OnlyOwnOperator ==
  LET own(d) == OperatorOf(d) \in {"0xAB", "0xAb", "0xaB", "0xab"}
  IN /\ \A d \in Range(indexedDisputes) \cup paymentInfoCache \cup Range(orderedDisputeKeys) : own(d)
     /\ \A p \in Ticks : frame[p].pc # "idle" => own(frame[p].d)

C35_Witness ==
  /\ \E p \in Ticks : Evaluating(p) /\ OperatorOf(frame[p].d) = "0xAB"
  /\ Cardinality(Range(indexedDisputes)) = 2
  /\ \E d \in Range(events) : OperatorOf(d) = "0xCD"

\* C36: when the arbiter lists more than PAGE_SIZE disputes that the
\* dashboard does not hide, the pagination controls are shown, and "Next" is
\* enabled on a page that is not the last.
C36_LaterPagesReachable ==
  (applied.fn = "loadDisputes" /\ applied.input.listed - applied.input.stale > PAGE_SIZE) =>
    /\ applied.result.pagination.shown
    /\ applied.input.newOffset + PAGE_SIZE < applied.input.listed => ~applied.result.pagination.nextDisabled

====
